---- MODULE Spec2Model ----
(***************************************************************************)
(* A state-machine model of src/app.py, the LAN file-transfer and chat      *)
(* server: the chat log, the presence registry, the join gate, the kicked   *)
(* set, chunked upload assembly, range downloads and folder archives.      *)
(*                                                                          *)
(* Text is modelled as a sequence of one-character strings, so that the     *)
(* conversions of the code (str.strip, secure_filename, the parsing of a    *)
(* Range header) are computed and not assumed.                              *)
(***************************************************************************)
EXTENDS Integers, Sequences, FiniteSets, TLC

VARIABLES
    chat_messages,     \* app.py:73   the bounded chat log (a list)
    chat_log,          \* ghost: every message ever appended, in append order
    connected_users,   \* app.py:76   presence registry, an insertion-ordered dict
    kicked_users,      \* app.py:77   set of kicked display names
    pending_clients,   \* app.py:81   join requests: id -> record
    client_history,    \* app.py:91   accept / reject history, newest first
    now,               \* time.time(), in whole seconds
    session,           \* the Flask session cookie of every browser
    req,               \* the request each browser has in flight
    resp,              \* the response the last step sent, and the browser it went to
    lock_owner,        \* who holds each threading.Lock across steps
    next_id,           \* ghost: number of uuid4 request ids handed out
    kick_returned,     \* ghost: names whose kick_user call has returned and that were not approved since
    approved_polls,    \* ghost: per request id, how many polls answered 'approved'
    disk,              \* the files of UPLOAD_FOLDER: name -> bytes
    temp,              \* the chunk files of TEMP_FOLDER: <<transfer id, index>> -> bytes
    metadata,          \* the JSON sidecars of METADATA_FOLDER: name -> record
    active_transfers,  \* app.py:57   transfer id -> record
    assembling_files,  \* app.py:61   names being assembled
    up,                \* the upload_chunk requests in flight, one per worker thread
    down,              \* the download_parallel requests in flight, one per worker thread
    job,               \* the file the uploading browser is sending, and what is left to send
    folder_uploads,          \* app.py:65   folder id -> upload session
    folder_finalize_status,  \* app.py:69   folder id -> status of the archive job
    tree,              \* the temp trees of TEMP_FOLDER: folder id -> (relative path -> bytes)
    fin,               \* the upload_folder_finalize requests in flight, one per worker thread
    zip,               \* the create_zip_background threads
    next_folder,       \* ghost: number of uuid4 folder ids handed out
    feed,              \* the generators of get_messages, one per open chat feed
    fallback           \* the upload_parallel request in flight

folderVars == <<folder_uploads, folder_finalize_status, tree, fin, zip, next_folder>>

sideVars == <<feed, fallback>>

fileVars ==
    <<disk, temp, metadata, active_transfers, assembling_files, up, down, job, folderVars,
      sideVars>>

vars == <<chat_messages, chat_log, connected_users, kicked_users, pending_clients,
          client_history, now, session, req, resp, lock_owner, next_id,
          kick_returned, approved_polls, fileVars>>

None == "None"

----------------------------------------------------------------------------
(* Program constants *)

MAX_MESSAGES == 100
USER_TIMEOUT == 30
MAX_NAME_LEN == 20
PENDING_TIMEOUT == 300
CHUNK_SIZE == 2 * 1024 * 1024

(* Bounds of the model *)
MaxLate == 2         \* chat messages sent after the log is full, in SpecFeedFull
MaxTalk == 5         \* chat entries in one behaviour of SpecActivity and SpecFeed
MaxFolders == 2      \* folder upload sessions started
MaxTreeFiles == 1    \* files received by one folder upload session

MaxAppends == 150     \* chat messages appended in one behaviour of SpecChat
MaxIds == 2           \* join-request ids handed out
MaxHistory == 2       \* entries of client_history
MaxChat == 2          \* system chat messages appended outside SpecChat
MaxTime == 62         \* the clock stops here
MaxChunks == 3        \* chunks of the uploaded file
MaxDownloads == 2     \* download records written in one behaviour
MaxFileSize == 1000   \* bytes of the stored file that ranges are asked of
MaxRequests == 4      \* one-byte chunks counted by one transfer record
MaxWait == 602        \* the clock of the join gate stops here

----------------------------------------------------------------------------
(* Text *)

RECURSIVE lstrip(_)
lstrip(s) == IF s # <<>> /\ Head(s) = " " THEN lstrip(Tail(s)) ELSE s

RECURSIVE rstrip(_)
rstrip(s) ==
    IF s # <<>> /\ s[Len(s)] = " " THEN rstrip(SubSeq(s, 1, Len(s) - 1)) ELSE s

\* str.strip(): leading and trailing whitespace removed
strip(s) == rstrip(lstrip(s))

----------------------------------------------------------------------------
(* Chat log *)

ChatEntry(username, message, message_type) ==
    [username |-> username, message |-> message, timestamp |-> now,
     type |-> message_type]

add_chat_message_PopLast(log, username, message, message_type) ==
    LET appended == Append(log, ChatEntry(username, message, message_type))
    IN  IF Len(appended) > MAX_MESSAGES
        THEN SubSeq(appended, 1, Len(appended) - 1)
        ELSE appended

\* add_chat_message: append, then drop the oldest when over MAX_MESSAGES
add_chat_message(log, username, message, message_type) ==
    LET appended == Append(log, ChatEntry(username, message, message_type))
    IN  IF Len(appended) > MAX_MESSAGES THEN Tail(appended) ELSE appended

\* the messages appended since the initial state (those are 'joined the chat')
SystemChats ==
    Cardinality({i \in 1..Len(chat_log) : chat_log[i].message[1] # "joined the chat"})

----------------------------------------------------------------------------
(* Browsers, sessions and requests *)

Browsers == {"host", "c1", "c2"}
Hosts == {"host"}
Clients == Browsers \ Hosts

\* request.remote_addr: the host browses on the server itself, the two client
\* browsers share one address (one device, or one NAT)
RemoteAddr(b) == IF b = "host" THEN "127.0.0.1" ELSE "10.0.0.1"

HostName == <<"H">>
LongName == [i \in 1..(MAX_NAME_LEN + 1) |-> "x"]

\* what a client may type into the join form
JoinNames == {<<"b">>, <<" ", "b">>, <<"c", " ">>, <<" ">>, LongName}

\* the names the host may ask to kick
KickNames == {<<"b">>, <<>>}

Locks ==
    {"pending_clients_lock", "kicked_lock", "user_lock", "chat_lock", "history_lock",
     "transfer_lock"}

\* a session key that is not set (session.get gives None, which is falsy like "")
NoName == <<>>

\* session.clear()
EmptySession ==
    [logged_in |-> FALSE, username |-> NoName, role |-> None, join_approved |-> FALSE]

Idle == [pc |-> "idle", client_id |-> 0, name |-> <<>>, action |-> None]

Response(status, body) ==
    [to |-> None, status |-> status, body |-> body, client_id |-> 0, users |-> <<>>]

Reply(b, r) == resp' = [r EXCEPT !.to = b]

\* a step that sends no response
Quiet == resp' = Response(0, "none")

Free(l) == lock_owner[l] = None

IsKicked_Never(b) == FALSE

\* check_if_kicked (before_request): a session whose username is kicked is
\* cleared and redirected to the join page; the handler does not run
IsKicked(b) == session[b].username # NoName /\ session[b].username \in kicked_users

IsHost_Anyone(b) == TRUE

\* session.get('role') == 'server', the test in front of every host-only action
IsHost(b) == session[b].role = "server"

check_if_kicked(b, r) ==
    /\ req[b].pc = "idle"
    /\ Free("kicked_lock")
    /\ IF IsKicked(b)
       THEN /\ session' = [session EXCEPT ![b] = EmptySession]
            /\ Reply(b, Response(302, "join_page"))
            /\ UNCHANGED req
       ELSE /\ req' = [req EXCEPT ![b] = r]
            /\ UNCHANGED <<session>> /\ Quiet

Finish(b) == req' = [req EXCEPT ![b] = Idle]

----------------------------------------------------------------------------
(* Join gate *)

PendingIds == DOMAIN pending_clients

\* the first pending record of that name, in dict (insertion) order
RECURSIVE FirstPending(_, _)
FirstPending(client_name, cid) ==
    IF cid > next_id THEN 0
    ELSE IF /\ cid \in PendingIds
            /\ pending_clients[cid].name = client_name
            /\ pending_clients[cid].status = "pending"
         THEN cid
         ELSE FirstPending(client_name, cid + 1)

FirstPending_Off(client_name, cid) == 0

\* the scan of join_request for a pending request of the same name
ExistingPending(client_name, cid) == FirstPending(client_name, cid)

Insert(f, k, v) == [x \in DOMAIN f \cup {k} |-> IF x = k THEN v ELSE f[x]]

Remove(f, k) == [x \in DOMAIN f \ {k} |-> f[x]]

join_request_begin(b) ==
    /\ check_if_kicked(b, [Idle EXCEPT !.pc = "join_request"])
    /\ UNCHANGED <<chat_messages, chat_log, connected_users, kicked_users,
                   pending_clients, client_history, now, lock_owner, next_id,
                   kick_returned, approved_polls, fileVars>>

\* data.get('name', '').strip() is read from the request body
join_request(b) ==
    /\ req[b].pc = "join_request"
    /\ \E raw \in JoinNames :
       LET client_name == strip(raw)
           existing == ExistingPending(client_name, 1)
       IN  IF client_name = <<>>
           THEN /\ Reply(b, Response(400, "Please enter your name"))
                /\ UNCHANGED <<pending_clients, next_id>>
           ELSE IF Len(client_name) > MAX_NAME_LEN
           THEN /\ Reply(b, Response(400, "Name must be 20 characters or less"))
                /\ UNCHANGED <<pending_clients, next_id>>
           ELSE /\ Free("pending_clients_lock")
                /\ IF existing # 0
                   THEN /\ Reply(b, [Response(200, "success") EXCEPT !.client_id = existing])
                        /\ UNCHANGED <<pending_clients, next_id>>
                   ELSE /\ next_id < MaxIds
                        /\ next_id' = next_id + 1
                        /\ pending_clients' =
                              Insert(pending_clients, next_id + 1,
                                     [name |-> client_name, status |-> "pending",
                                      timestamp |-> now, ip |-> RemoteAddr(b)])
                        /\ Reply(b, [Response(200, "success") EXCEPT !.client_id = next_id + 1])
    /\ Finish(b)
    /\ UNCHANGED <<chat_messages, chat_log, connected_users, kicked_users,
                   client_history, now, session, lock_owner, kick_returned,
                   approved_polls, fileVars>>

join_status_begin(b) ==
    /\ check_if_kicked(b, [Idle EXCEPT !.pc = "join_status"])
    /\ UNCHANGED <<chat_messages, chat_log, connected_users, kicked_users,
                   pending_clients, client_history, now, lock_owner, next_id,
                   kick_returned, approved_polls, fileVars>>

DeletePending_Keep(client_id) == pending_clients

\* del pending_clients[client_id]
DeletePending(client_id) == Remove(pending_clients, client_id)

join_status_GrantsPending(b) ==
    /\ req[b].pc = "join_status"
    /\ Free("pending_clients_lock")
    /\ \E client_id \in 1..MaxIds :
       IF client_id \notin PendingIds
       THEN /\ Reply(b, [Response(404, "unknown") EXCEPT !.client_id = client_id])
            /\ UNCHANGED <<pending_clients, session, chat_messages, chat_log, approved_polls>>
       ELSE LET client_data == pending_clients[client_id]
                status == client_data.status
            IN  IF status # "rejected"
                THEN /\ SystemChats < MaxChat
                     /\ session' = [session EXCEPT ![b].logged_in = TRUE,
                                                   ![b].username = client_data.name,
                                                   ![b].join_approved = TRUE]
                     /\ Free("chat_lock")
                     /\ chat_messages' = add_chat_message(chat_messages, <<"System">>,
                                             <<"joined the session", client_data.name>>, "system")
                     /\ chat_log' = Append(chat_log, ChatEntry(<<"System">>,
                                             <<"joined the session", client_data.name>>, "system"))
                     /\ pending_clients' = DeletePending(client_id)
                     /\ approved_polls' = [approved_polls EXCEPT ![client_id] = @ + 1]
                     /\ Reply(b, [Response(200, "approved") EXCEPT !.client_id = client_id])
                ELSE IF status = "rejected"
                THEN /\ pending_clients' = DeletePending(client_id)
                     /\ Reply(b, [Response(200, "rejected") EXCEPT !.client_id = client_id])
                     /\ UNCHANGED <<session, chat_messages, chat_log, approved_polls>>
                ELSE /\ Reply(b, [Response(200, "pending") EXCEPT !.client_id = client_id])
                     /\ UNCHANGED <<pending_clients, session, chat_messages, chat_log,
                                    approved_polls>>
    /\ Finish(b)
    /\ UNCHANGED <<connected_users, kicked_users, client_history, now, lock_owner,
                   next_id, kick_returned, fileVars>>

join_status(b) ==
    /\ req[b].pc = "join_status"
    /\ Free("pending_clients_lock")
    /\ \E client_id \in 1..MaxIds :
       IF client_id \notin PendingIds
       THEN /\ Reply(b, [Response(404, "unknown") EXCEPT !.client_id = client_id])
            /\ UNCHANGED <<pending_clients, session, chat_messages, chat_log, approved_polls>>
       ELSE LET client_data == pending_clients[client_id]
                status == client_data.status
            IN  IF status = "approved"
                THEN /\ SystemChats < MaxChat
                     /\ session' = [session EXCEPT ![b].logged_in = TRUE,
                                                   ![b].username = client_data.name,
                                                   ![b].join_approved = TRUE]
                     /\ Free("chat_lock")
                     /\ chat_messages' = add_chat_message(chat_messages, <<"System">>,
                                             <<"joined the session", client_data.name>>, "system")
                     /\ chat_log' = Append(chat_log, ChatEntry(<<"System">>,
                                             <<"joined the session", client_data.name>>, "system"))
                     /\ pending_clients' = DeletePending(client_id)
                     /\ approved_polls' = [approved_polls EXCEPT ![client_id] = @ + 1]
                     /\ Reply(b, [Response(200, "approved") EXCEPT !.client_id = client_id])
                ELSE IF status = "rejected"
                THEN /\ pending_clients' = DeletePending(client_id)
                     /\ Reply(b, [Response(200, "rejected") EXCEPT !.client_id = client_id])
                     /\ UNCHANGED <<session, chat_messages, chat_log, approved_polls>>
                ELSE /\ Reply(b, [Response(200, "pending") EXCEPT !.client_id = client_id])
                     /\ UNCHANGED <<pending_clients, session, chat_messages, chat_log,
                                    approved_polls>>
    /\ Finish(b)
    /\ UNCHANGED <<connected_users, kicked_users, client_history, now, lock_owner,
                   next_id, kick_returned, fileVars>>

\* pending_clients[client_id]['status'] = status
SetStatus(client_id, status) == [pending_clients EXCEPT ![client_id].status = status]

Unkick_Skip(client_name) == kicked_users

\* if client_name in kicked_users: kicked_users.remove(client_name)
Unkick(client_name) == kicked_users \ {client_name}

HistoryEntry(client_id, action) ==
    [name |-> pending_clients[client_id].name, ip |-> pending_clients[client_id].ip,
     action |-> action, timestamp |-> now, client_id |-> client_id]

\* the JSON bodies the dashboard may post: {client_id, action}
RespondInputs ==
    ((1..MaxIds) \X {"approve", "reject"}) \cup {<<0, "approve">>, <<1, "other">>}

join_respond_begin(b) ==
    /\ check_if_kicked(b, [Idle EXCEPT !.pc = "join_respond"])
    /\ UNCHANGED <<chat_messages, chat_log, connected_users, kicked_users,
                   pending_clients, client_history, now, lock_owner, next_id,
                   kick_returned, approved_polls, fileVars>>

\* login_required, the role check, the argument check, then the status update
\* under pending_clients_lock, which stays held until the handler returns
join_respond(b) ==
    /\ req[b].pc = "join_respond"
    /\ \E in \in RespondInputs :
       LET client_id == in[1]
           action == in[2]
       IN  IF ~session[b].logged_in
           THEN /\ Reply(b, Response(302, "login")) /\ Finish(b)
                /\ UNCHANGED <<pending_clients, lock_owner>>
           ELSE IF ~IsHost(b)
           THEN /\ Reply(b, Response(403, "Permission denied")) /\ Finish(b)
                /\ UNCHANGED <<pending_clients, lock_owner>>
           ELSE IF client_id = 0 \/ action \notin {"approve", "reject"}
           THEN /\ Reply(b, Response(400, "Invalid request")) /\ Finish(b)
                /\ UNCHANGED <<pending_clients, lock_owner>>
           ELSE /\ Free("pending_clients_lock")
                /\ IF client_id \notin PendingIds
                   THEN /\ Reply(b, Response(404, "Client request not found")) /\ Finish(b)
                        /\ UNCHANGED <<pending_clients, lock_owner>>
                   ELSE /\ Len(client_history) < MaxHistory
                        /\ lock_owner' = [lock_owner EXCEPT !["pending_clients_lock"] = b]
                        /\ pending_clients' =
                              SetStatus(client_id,
                                        IF action = "approve" THEN "approved" ELSE "rejected")
                        /\ req' = [req EXCEPT ![b] =
                                      [pc |-> IF action = "approve" THEN "respond_unkick"
                                                                    ELSE "respond_history",
                                       client_id |-> client_id, name |-> <<>>,
                                       action |-> action]]
                        /\ Quiet
    /\ UNCHANGED <<chat_messages, chat_log, connected_users, kicked_users,
                   client_history, now, session, next_id, kick_returned, approved_polls, fileVars>>

\* approve: with kicked_lock, the name leaves the kicked set
respond_unkick(b) ==
    /\ req[b].pc = "respond_unkick"
    /\ Free("kicked_lock")
    /\ LET client_name == pending_clients[req[b].client_id].name IN
          /\ kicked_users' = Unkick(client_name)
          /\ kick_returned' = kick_returned \ {client_name}
    /\ req' = [req EXCEPT ![b].pc = "respond_history"]
    /\ Quiet
    /\ UNCHANGED <<chat_messages, chat_log, connected_users, pending_clients,
                   client_history, now, session, lock_owner, next_id, approved_polls, fileVars>>

respond_history_KeepsLock(b) ==
    /\ req[b].pc = "respond_history"
    /\ Free("history_lock")
    /\ client_history' =
          <<HistoryEntry(req[b].client_id,
                         IF req[b].action = "approve" THEN "Accepted" ELSE "Rejected")>>
          \o client_history
    /\ Reply(b, Response(200, "success"))
    /\ Finish(b)
    /\ UNCHANGED <<chat_messages, chat_log, connected_users, kicked_users,
                   pending_clients, now, session, lock_owner, next_id, kick_returned,
                   approved_polls, fileVars>>

\* with history_lock, client_history.insert(0, ...); then the lock is released
respond_history(b) ==
    /\ req[b].pc = "respond_history"
    /\ Free("history_lock")
    /\ client_history' =
          <<HistoryEntry(req[b].client_id,
                         IF req[b].action = "approve" THEN "Accepted" ELSE "Rejected")>>
          \o client_history
    /\ lock_owner' = [lock_owner EXCEPT !["pending_clients_lock"] = None]
    /\ Reply(b, Response(200, "success"))
    /\ Finish(b)
    /\ UNCHANGED <<chat_messages, chat_log, connected_users, kicked_users,
                   pending_clients, now, session, next_id, kick_returned,
                   approved_polls, fileVars>>

join_pending_begin(b) ==
    /\ check_if_kicked(b, [Idle EXCEPT !.pc = "join_pending"])
    /\ UNCHANGED <<chat_messages, chat_log, connected_users, kicked_users,
                   pending_clients, client_history, now, lock_owner, next_id,
                   kick_returned, approved_polls, fileVars>>

\* the records join_pending removes: pending ones older than PENDING_TIMEOUT
Stale(current_time) ==
    {cid \in PendingIds : /\ current_time - pending_clients[cid].timestamp > PENDING_TIMEOUT
                          /\ pending_clients[cid].status = "pending"}

ExpirePending(current_time) ==
    [cid \in PendingIds \ Stale(current_time) |-> pending_clients[cid]]

\* the ids of a dict's records in status pending, in the order of the ids
RECURSIVE PendingList(_, _)
PendingList(clients, ids) ==
    IF ids = {} THEN <<>>
    ELSE LET cid == CHOOSE c \in ids : \A d \in ids : c <= d
         IN  (IF clients[cid].status = "pending" THEN <<cid>> ELSE <<>>)
                 \o PendingList(clients, ids \ {cid})

\* join_pending (host only): under pending_clients_lock the stale pending
\* records are deleted, then the pending ones are listed
join_pending(b) ==
    /\ req[b].pc = "join_pending"
    /\ IF ~session[b].logged_in
       THEN /\ Reply(b, Response(302, "login"))
            /\ UNCHANGED pending_clients
       ELSE IF ~IsHost(b)
       THEN /\ Reply(b, Response(403, "Permission denied"))
            /\ UNCHANGED pending_clients
       ELSE /\ Free("pending_clients_lock")
            /\ pending_clients' = ExpirePending(now)
            /\ Reply(b, [Response(200, "pending_list") EXCEPT
                            !.users = PendingList(pending_clients', DOMAIN pending_clients')])
    /\ Finish(b)
    /\ UNCHANGED <<chat_messages, chat_log, connected_users, kicked_users,
                   client_history, now, session, lock_owner, next_id, kick_returned,
                   approved_polls, fileVars>>

get_client_history_begin(b) ==
    /\ check_if_kicked(b, [Idle EXCEPT !.pc = "get_client_history"])
    /\ UNCHANGED <<chat_messages, chat_log, connected_users, kicked_users,
                   pending_clients, client_history, now, lock_owner, next_id,
                   kick_returned, approved_polls, fileVars>>

\* get_client_history (host only): the history is returned
get_client_history(b) ==
    /\ req[b].pc = "get_client_history"
    /\ IF ~session[b].logged_in
       THEN Reply(b, Response(302, "login"))
       ELSE IF ~IsHost(b)
       THEN Reply(b, Response(403, "Permission denied"))
       ELSE /\ Free("history_lock")
            /\ Reply(b, [Response(200, "history") EXCEPT !.users = client_history])
    /\ Finish(b)
    /\ UNCHANGED <<chat_messages, chat_log, connected_users, kicked_users,
                   pending_clients, client_history, now, session, lock_owner, next_id,
                   kick_returned, approved_polls, fileVars>>

----------------------------------------------------------------------------
(* Presence registry *)

\* f"{request.remote_addr}_{username}_{session.get('_id', 'default')}"
SessionId(b) == <<RemoteAddr(b), session[b].username, "default">>

IndexOf(users, sid) ==
    IF \E i \in 1..Len(users) : users[i].sid = sid
    THEN CHOOSE i \in 1..Len(users) : users[i].sid = sid
    ELSE 0

\* connected_users[session_id] = {...}: an existing key keeps its place
Upsert(users, rec) ==
    LET i == IndexOf(users, rec.sid)
    IN  IF i = 0 THEN Append(users, rec) ELSE [users EXCEPT ![i] = rec]

Expired_AtTimeout(user_data, current_time) ==
    current_time - user_data.last_seen >= USER_TIMEOUT

\* current_time - user_data['last_seen'] > USER_TIMEOUT
Expired(user_data, current_time) == current_time - user_data.last_seen > USER_TIMEOUT

Sweep(users, current_time) == SelectSeq(users, LAMBDA u : ~Expired(u, current_time))

\* update_user_activity: upsert the caller's record, then sweep the old ones
update_user_activity(b) ==
    IF session[b].logged_in /\ session[b].username # NoName
    THEN Sweep(Upsert(connected_users,
                      [sid |-> SessionId(b), username |-> session[b].username,
                       last_seen |-> now, is_server |-> (session[b].role = "server")]),
               now)
    ELSE connected_users

DictIndex(online_dict, username) ==
    IF \E i \in 1..Len(online_dict) : online_dict[i].username = username
    THEN CHOOSE i \in 1..Len(online_dict) : online_dict[i].username = username
    ELSE 0

RECURSIVE OnlineDict_LastWins(_, _, _, _)
OnlineDict_LastWins(users, i, current_time, online_dict) ==
    IF i > Len(users) THEN online_dict
    ELSE LET user_data == users[i]
             k == DictIndex(online_dict, user_data.username)
             entry == [username |-> user_data.username, is_server |-> user_data.is_server]
         IN  IF Expired(user_data, current_time)
             THEN OnlineDict_LastWins(users, i + 1, current_time, online_dict)
             ELSE IF k = 0
             THEN OnlineDict_LastWins(users, i + 1, current_time, Append(online_dict, entry))
             ELSE OnlineDict_LastWins(users, i + 1, current_time,
                                      [online_dict EXCEPT ![k] = entry])

\* the loop of get_online_users over connected_users.items(), building online_dict
RECURSIVE OnlineDict(_, _, _, _)
OnlineDict(users, i, current_time, online_dict) ==
    IF i > Len(users) THEN online_dict
    ELSE LET user_data == users[i]
             k == DictIndex(online_dict, user_data.username)
             entry == [username |-> user_data.username, is_server |-> user_data.is_server]
         IN  IF ~Expired(user_data, current_time)
             THEN IF k = 0
                  THEN OnlineDict(users, i + 1, current_time, Append(online_dict, entry))
                  ELSE IF user_data.is_server
                  THEN OnlineDict(users, i + 1, current_time, [online_dict EXCEPT ![k] = entry])
                  ELSE OnlineDict(users, i + 1, current_time, online_dict)
             ELSE OnlineDict(users, i + 1, current_time, online_dict)

online_users_begin(b) ==
    /\ check_if_kicked(b, [Idle EXCEPT !.pc = "online_users"])
    /\ UNCHANGED <<chat_messages, chat_log, connected_users, kicked_users,
                   pending_clients, client_history, now, lock_owner, next_id,
                   kick_returned, approved_polls, fileVars>>

\* login_required, then get_online_users' call of update_user_activity
online_users(b) ==
    /\ req[b].pc = "online_users"
    /\ IF ~session[b].logged_in
       THEN /\ Reply(b, Response(302, "login")) /\ Finish(b)
            /\ UNCHANGED connected_users
       ELSE /\ Free("user_lock")
            /\ connected_users' = update_user_activity(b)
            /\ req' = [req EXCEPT ![b].pc = "get_online_users"]
            /\ Quiet
    /\ UNCHANGED <<chat_messages, chat_log, kicked_users, pending_clients,
                   client_history, now, session, lock_owner, next_id,
                   kick_returned, approved_polls, fileVars>>

\* the locked part of get_online_users: list, and delete the expired records
get_online_users(b) ==
    /\ req[b].pc = "get_online_users"
    /\ Free("user_lock")
    /\ Reply(b, [Response(200, "users") EXCEPT
                    !.users = OnlineDict(connected_users, 1, now, <<>>)])
    /\ connected_users' = Sweep(connected_users, now)
    /\ Finish(b)
    /\ UNCHANGED <<chat_messages, chat_log, kicked_users, pending_clients,
                   client_history, now, session, lock_owner, next_id,
                   kick_returned, approved_polls, fileVars>>

----------------------------------------------------------------------------
(* Kick *)

\* session.get("username", "Host")
Kicker(b) == IF session[b].username = NoName THEN <<"H", "o", "s", "t">> ELSE session[b].username

kick_user_begin(b) ==
    /\ check_if_kicked(b, [Idle EXCEPT !.pc = "kick_user"])
    /\ UNCHANGED <<chat_messages, chat_log, connected_users, kicked_users,
                   pending_clients, client_history, now, lock_owner, next_id,
                   kick_returned, approved_polls, fileVars>>

\* login_required, the role check, the username check, then kicked_users.add
kick_user(b) ==
    /\ req[b].pc = "kick_user"
    /\ IF ~session[b].logged_in
       THEN /\ Reply(b, Response(302, "login")) /\ Finish(b)
            /\ UNCHANGED kicked_users
       ELSE IF ~IsHost(b)
       THEN /\ Reply(b, Response(403, "Permission denied")) /\ Finish(b)
            /\ UNCHANGED kicked_users
       ELSE \E username \in KickNames :
            IF username = <<>>
            THEN /\ Reply(b, Response(400, "Invalid username")) /\ Finish(b)
                 /\ UNCHANGED kicked_users
            ELSE /\ SystemChats < MaxChat
                 /\ Free("kicked_lock")
                 /\ kicked_users' = kicked_users \cup {username}
                 /\ req' = [req EXCEPT ![b].pc = "kick_presence", ![b].name = username]
                 /\ Quiet
    /\ UNCHANGED <<chat_messages, chat_log, connected_users, pending_clients,
                   client_history, now, session, lock_owner, next_id,
                   kick_returned, approved_polls, fileVars>>

\* with user_lock: delete every presence record of that username
kick_presence(b) ==
    /\ req[b].pc = "kick_presence"
    /\ Free("user_lock")
    /\ connected_users' = SelectSeq(connected_users, LAMBDA u : u.username # req[b].name)
    /\ req' = [req EXCEPT ![b].pc = "kick_chat"]
    /\ Quiet
    /\ UNCHANGED <<chat_messages, chat_log, kicked_users, pending_clients,
                   client_history, now, session, lock_owner, next_id, kick_returned,
                   approved_polls, fileVars>>

\* the system chat message, and the response
kick_chat(b) ==
    /\ req[b].pc = "kick_chat"
    /\ Free("chat_lock")
    /\ chat_messages' = add_chat_message(chat_messages, <<"System">>,
                            <<"was kicked by", req[b].name, Kicker(b)>>, "system")
    /\ chat_log' = Append(chat_log, ChatEntry(<<"System">>,
                            <<"was kicked by", req[b].name, Kicker(b)>>, "system"))
    /\ kick_returned' = IF req[b].name \in kicked_users
                        THEN kick_returned \cup {req[b].name}
                        ELSE kick_returned
    /\ Reply(b, Response(200, "success"))
    /\ Finish(b)
    /\ UNCHANGED <<connected_users, kicked_users, pending_clients, client_history,
                   now, session, lock_owner, next_id, approved_polls, fileVars>>

----------------------------------------------------------------------------
(* Chat *)

ChatTexts == {<<"m">>, <<" ">>}

send_message_begin(b) ==
    /\ check_if_kicked(b, [Idle EXCEPT !.pc = "send_message"])
    /\ UNCHANGED <<chat_messages, chat_log, connected_users, kicked_users,
                   pending_clients, client_history, now, lock_owner, next_id,
                   kick_returned, approved_polls, fileVars>>

\* send_message: login_required, the empty-message check, add_chat_message.
\* The text is tagged with its append number, so that messages are distinct.
send_message(b) ==
    /\ req[b].pc = "send_message"
    /\ \E text \in ChatTexts :
       LET message == strip(text)
           tagged == <<message, Len(chat_log) + 1>>
       IN  IF ~session[b].logged_in
           THEN /\ Reply(b, Response(302, "login"))
                /\ UNCHANGED <<chat_messages, chat_log>>
           ELSE IF message = <<>>
           THEN /\ Reply(b, Response(400, "Empty message"))
                /\ UNCHANGED <<chat_messages, chat_log>>
           ELSE /\ Len(chat_log) < MaxAppends
                /\ Free("chat_lock")
                /\ chat_messages' =
                      add_chat_message(chat_messages, session[b].username, tagged, "text")
                /\ chat_log' = Append(chat_log, ChatEntry(session[b].username, tagged, "text"))
                /\ Reply(b, Response(200, "success"))
    /\ Finish(b)
    /\ UNCHANGED <<connected_users, kicked_users, pending_clients, client_history,
                   now, session, lock_owner, next_id, kick_returned, approved_polls, fileVars>>

\* the chat feed connections the server has workers for
FeedConnections == {"s1"}

\* no generator: the connection has not been opened
\* (pushed is a ghost: every message the connection has been sent, in order)
FeedClosed == [pc |-> "closed", last_count |-> 0, sent |-> <<>>, pushed |-> <<>>]

otherThanFeed ==
    <<chat_messages, chat_log, connected_users, kicked_users, pending_clients,
      client_history, now, session, lock_owner, next_id, kick_returned, approved_polls,
      disk, temp, metadata, active_transfers, assembling_files, up, down, job, folderVars, fallback>>

get_messages_begin(b) ==
    /\ check_if_kicked(b, [Idle EXCEPT !.pc = "get_messages"])
    /\ UNCHANGED <<chat_messages, chat_log, connected_users, kicked_users,
                   pending_clients, client_history, now, lock_owner, next_id,
                   kick_returned, approved_polls, fileVars>>

\* get_messages: login_required, then the response streams a new generator,
\* which starts with last_count = 0
get_messages(b) ==
    /\ req[b].pc = "get_messages"
    /\ IF ~session[b].logged_in
       THEN /\ Reply(b, Response(302, "login"))
            /\ UNCHANGED feed
       ELSE \E c \in FeedConnections :
               /\ feed[c].pc = "closed"
               /\ feed' = [feed EXCEPT ![c] = [FeedClosed EXCEPT !.pc = "poll"]]
               /\ Reply(b, Response(200, "text/event-stream"))
    /\ Finish(b)
    /\ UNCHANGED <<otherThanFeed>>

get_messages_generate_ResendAll(last_count, messages) ==
    IF Len(messages) # last_count
    THEN [sent |-> <<messages>>, last_count |-> Len(messages)]
    ELSE [sent |-> <<>>, last_count |-> last_count]

\* one round of the loop of generate, under chat_lock: what is yielded (one
\* event carrying a list of messages, or nothing) and the new last_count
get_messages_generate(last_count, messages) ==
    LET current_count == Len(messages)
    IN  IF current_count > last_count
        THEN [sent |-> <<SubSeq(messages, last_count + 1, current_count)>>,
              last_count |-> current_count]
        ELSE IF current_count < last_count
        THEN [sent |-> <<messages>>, last_count |-> current_count]
        ELSE [sent |-> <<>>, last_count |-> last_count]

\* with chat_lock: the generator compares the log with last_count and yields
get_messages_poll(c) ==
    /\ feed[c].pc = "poll"
    /\ Free("chat_lock")
    /\ LET round == get_messages_generate(feed[c].last_count, chat_messages)
       IN  feed' = [feed EXCEPT ![c] = [pc |-> "sleep", last_count |-> round.last_count,
                                        sent |-> round.sent,
                                        pushed |-> feed[c].pushed \o
                                                   (IF round.sent = <<>> THEN <<>>
                                                    ELSE round.sent[1])]]
    /\ Quiet
    /\ UNCHANGED <<otherThanFeed, req>>

\* time.sleep(0.3), then the next round
get_messages_sleep(c) ==
    /\ feed[c].pc = "sleep"
    /\ feed' = [feed EXCEPT ![c].pc = "poll"]
    /\ Quiet
    /\ UNCHANGED <<otherThanFeed, req>>

----------------------------------------------------------------------------
(* Time *)

\* the clock is observed after 29, 30 or 31 seconds
TickSteps == {USER_TIMEOUT - 1, USER_TIMEOUT, USER_TIMEOUT + 1}

Tick ==
    /\ \E d \in TickSteps : now + d <= MaxTime /\ now' = now + d
    /\ Quiet
    /\ UNCHANGED <<chat_messages, chat_log, connected_users, kicked_users,
                   pending_clients, client_history, session, req, lock_owner, next_id,
                   kick_returned, approved_polls, fileVars>>

\* between two requests 300 or 301 seconds pass
WaitSteps == {PENDING_TIMEOUT, PENDING_TIMEOUT + 1}

Wait ==
    /\ \A b \in Browsers : req[b].pc = "idle"
    /\ \E d \in WaitSteps : now + d <= MaxWait /\ now' = now + d
    /\ Quiet
    /\ UNCHANGED <<chat_messages, chat_log, connected_users, kicked_users,
                   pending_clients, client_history, session, req, lock_owner, next_id,
                   kick_returned, approved_polls, fileVars>>

----------------------------------------------------------------------------
(* Files: names, folders and the upload being sent *)

\* the characters secure_filename keeps: [A-Za-z0-9_.-], as far as names here use them
SafeChars == {"f", "g", "x", "0", "1", "_", ".", "-"}

\* "_".join(s.split()): runs of whitespace become one "_", the ends are trimmed
RECURSIVE JoinWords(_)
JoinWords(s) ==
    IF s = <<>> THEN <<>>
    ELSE IF Head(s) = " " THEN <<"_">> \o JoinWords(lstrip(s))
    ELSE <<Head(s)>> \o JoinWords(Tail(s))

\* str.strip("._")
RECURSIVE StripDots(_)
StripDots(s) ==
    IF s # <<>> /\ Head(s) \in {".", "_"} THEN StripDots(Tail(s))
    ELSE IF s # <<>> /\ s[Len(s)] \in {".", "_"} THEN StripDots(SubSeq(s, 1, Len(s) - 1))
    ELSE s

\* werkzeug's secure_filename: path separators become spaces, words are joined
\* with "_", characters outside the safe set are dropped, then "." and "_" are
\* stripped from both ends
secure_filename(raw) ==
    LET spaced == [i \in 1..Len(raw) |-> IF raw[i] = "/" THEN " " ELSE raw[i]]
        joined == JoinWords(strip(spaced))
    IN  StripDots(SelectSeq(joined, LAMBDA c : c \in SafeChars))

\* md5 of the name: a value that is a function of the name and nothing else
get_file_hash(filename) == <<"md5", filename>>

\* a folder or a dict: a function from keys to values
NoEntries == [k \in {} |-> 0]
Put(f, k, v) == [x \in (DOMAIN f) \cup {k} |-> IF x = k THEN v ELSE f[x]]
Del(f, k) == [x \in (DOMAIN f) \ {k} |-> f[x]]

UploadThreads == {"u1", "u2"}
DownloadThreads == {"d1", "d2"}

\* get_username() and the two guards in front of the file handlers
\* (check_if_kicked, login_required, is_username_set): the request of a session
\* that passes them; the file specifications have no kick, so the hook and the
\* handler's first statement see the same kicked set
Admitted(b) ==
    /\ ~IsKicked(b)
    /\ session[b].logged_in
    /\ session[b].username # NoName

\* the name the browser sends with each chunk of the file it uploads
UploadName == <<"f", " ", "g">>

\* the chunks a file may be cut into
ChunkData == {<<1>>, <<2, 3>>}
Jobs ==
    UNION {[filename : {UploadName}, total : {n}, data : [1..n -> ChunkData],
            unsent : {0..(n - 1)}] : n \in 1..MaxChunks}

RECURSIVE Concat(_)
Concat(chunks) == IF chunks = <<>> THEN <<>> ELSE Head(chunks) \o Concat(Tail(chunks))

UpIdle ==
    [pc |-> "idle", by |-> None, filename |-> <<>>, index |-> 0, total |-> 0,
     size |-> 0, i |-> 0]

NewTransfer(filename, total_chunks) ==
    [filename |-> filename, total_chunks |-> total_chunks, received_chunks |-> {},
     start_time |-> now, total_bytes |-> 0, chunk_sizes |-> NoEntries]

\* the metadata upload_chunk saves next to an assembled file
FileMetadata(filename, username, final_size) ==
    [filename |-> filename, uploaded_by |-> username, file_size |-> final_size,
     downloads |-> <<>>]

\* what load_file_metadata returns when there is no sidecar
DefaultMetadata(filename) == FileMetadata(filename, <<"Unknown">>, 0)

UploadedChat(username, filename, final_size) ==
    ChatEntry(<<"System">>, <<"uploaded", username, filename, final_size>>, "system")

----------------------------------------------------------------------------
(* Chunked upload: upload_chunk, one step per access to shared state *)

otherThanFiles ==
    <<connected_users, kicked_users, pending_clients, client_history, now, session,
      req, next_id, kick_returned, approved_polls, folderVars, sideVars>>

\* chunk.save(temp_chunk_path) and os.path.getsize, before any lock is taken
upload_chunk_save(t, b, raw, chunk_index, total_chunks, chunk) ==
    /\ up[t].pc = "idle"
    /\ Admitted(b)
    /\ LET filename == secure_filename(raw)
           transfer_id == get_file_hash(filename)
       IN  /\ temp' = Put(temp, <<transfer_id, chunk_index>>, chunk)
           /\ up' = [up EXCEPT ![t] =
                        [pc |-> "track", by |-> b, filename |-> filename,
                         index |-> chunk_index, total |-> total_chunks,
                         size |-> Len(chunk), i |-> 0]]
    /\ Quiet
    /\ UNCHANGED <<chat_messages, chat_log, lock_owner, otherThanFiles, disk, metadata,
                   active_transfers, assembling_files, down>>

\* with transfer_lock: the chunk is counted; when the count equals the request's
\* total_chunks the name is put into assembling_files and the lock is kept
upload_chunk_track(t) ==
    /\ up[t].pc = "track"
    /\ Free("transfer_lock")
    /\ LET transfer_id == get_file_hash(up[t].filename)
           known == IF transfer_id \in DOMAIN active_transfers
                    THEN active_transfers[transfer_id]
                    ELSE NewTransfer(up[t].filename, up[t].total)
           record == [known EXCEPT
                         !.received_chunks = @ \cup {up[t].index},
                         !.chunk_sizes = Put(@, up[t].index, up[t].size),
                         !.total_bytes = @ + up[t].size]
           received == Cardinality(record.received_chunks)
       IN  /\ active_transfers' = Put(active_transfers, transfer_id, record)
           /\ IF received = up[t].total
              THEN /\ assembling_files' = assembling_files \cup {up[t].filename}
                   /\ lock_owner' = [lock_owner EXCEPT !["transfer_lock"] = t]
                   /\ up' = [up EXCEPT ![t].pc = "open"]
                   /\ Quiet
              ELSE /\ Reply(t, Response(200, "incomplete"))
                   /\ up' = [up EXCEPT ![t] = UpIdle]
                   /\ UNCHANGED <<assembling_files, lock_owner>>
    /\ UNCHANGED <<chat_messages, chat_log, otherThanFiles, disk, temp, metadata, down, job>>

\* open(final_path, 'wb'): the file is created, or truncated when it exists
upload_chunk_open(t) ==
    /\ up[t].pc = "open"
    /\ disk' = Put(disk, up[t].filename, <<>>)
    /\ up' = [up EXCEPT ![t].pc = "copy", ![t].i = 0]
    /\ Quiet
    /\ UNCHANGED <<chat_messages, chat_log, lock_owner, otherThanFiles, temp, metadata,
                   active_transfers, assembling_files, down, job>>

write_Front(outfile, chunk_data) == chunk_data \o outfile

\* outfile.write(chunk_data): the bytes go to the end of the file
write(outfile, chunk_data) == outfile \o chunk_data

\* one round of the loop over range(total_chunks): chunk i is appended to the
\* file and removed, or it is missing and the assembly fails
upload_chunk_copy(t) ==
    /\ up[t].pc = "copy"
    /\ LET filename == up[t].filename
           chunk_path == <<get_file_hash(filename), up[t].i>>
       IN  IF chunk_path \notin DOMAIN temp
           THEN /\ up' = [up EXCEPT ![t].pc = "fail"]
                /\ UNCHANGED <<disk, temp>>
           ELSE /\ disk' = [disk EXCEPT ![filename] = write(@, temp[chunk_path])]
                /\ temp' = Del(temp, chunk_path)
                /\ up' = [up EXCEPT ![t].i = @ + 1,
                                    ![t].pc = IF up[t].i + 1 = up[t].total
                                              THEN "meta" ELSE "copy"]
    /\ Quiet
    /\ UNCHANGED <<chat_messages, chat_log, lock_owner, otherThanFiles, metadata,
                   active_transfers, assembling_files, down, job>>

\* time.time() - start_time, in clock ticks: zero when the clock has not moved
\* since the transfer record was made (a coarse clock and a quick upload)
Elapsed == {0, 1}

\* os.path.getsize(final_path), the speed final_size / elapsed (a division by
\* zero raises, like a missing file), then save_file_metadata
upload_chunk_meta(t) ==
    /\ up[t].pc = "meta"
    /\ \E elapsed \in Elapsed :
       LET filename == up[t].filename
       IN  IF filename \notin DOMAIN disk \/ elapsed = 0
           THEN /\ up' = [up EXCEPT ![t].pc = "fail"]
                /\ UNCHANGED metadata
           ELSE /\ metadata' = Put(metadata, filename,
                                   FileMetadata(filename, session[up[t].by].username,
                                                Len(disk[filename])))
                /\ up' = [up EXCEPT ![t].pc = "finish", ![t].size = Len(disk[filename])]
    /\ Quiet
    /\ UNCHANGED <<chat_messages, chat_log, lock_owner, otherThanFiles, disk, temp,
                   active_transfers, assembling_files, down, job>>

\* the name leaves assembling_files, the chat is told, the transfer record is
\* deleted, the lock is released and the request answers 'completed'
upload_chunk_finish(t) ==
    /\ up[t].pc = "finish"
    /\ Free("chat_lock")
    /\ LET filename == up[t].filename
           username == session[up[t].by].username
           message == <<"uploaded", username, filename, up[t].size>>
       IN  /\ assembling_files' = assembling_files \ {filename}
           /\ chat_messages' = add_chat_message(chat_messages, <<"System">>, message, "system")
           /\ chat_log' = Append(chat_log, ChatEntry(<<"System">>, message, "system"))
           /\ active_transfers' = Del(active_transfers, get_file_hash(filename))
    /\ lock_owner' = [lock_owner EXCEPT !["transfer_lock"] = None]
    /\ Reply(t, Response(200, "completed"))
    /\ up' = [up EXCEPT ![t] = UpIdle]
    /\ UNCHANGED <<otherThanFiles, disk, temp, metadata, down, job>>

\* except Exception: the name leaves assembling_files first
upload_chunk_fail(t) ==
    /\ up[t].pc = "fail"
    /\ assembling_files' = assembling_files \ {up[t].filename}
    /\ up' = [up EXCEPT ![t].pc = "fail_chunks"]
    /\ Quiet
    /\ UNCHANGED <<chat_messages, chat_log, lock_owner, otherThanFiles, disk, temp,
                   metadata, active_transfers, down, job>>

\* then every chunk file of the transfer that still exists is removed
upload_chunk_fail_chunks(t) ==
    /\ up[t].pc = "fail_chunks"
    /\ LET transfer_id == get_file_hash(up[t].filename)
           mine == {<<transfer_id, i>> : i \in 0..(up[t].total - 1)}
       IN  temp' = [k \in (DOMAIN temp) \ mine |-> temp[k]]
    /\ up' = [up EXCEPT ![t].pc = "fail_file"]
    /\ Quiet
    /\ UNCHANGED <<chat_messages, chat_log, lock_owner, otherThanFiles, disk, metadata,
                   active_transfers, assembling_files, down, job>>

\* then the incomplete file and the transfer record; the request answers 500
upload_chunk_fail_file(t) ==
    /\ up[t].pc = "fail_file"
    /\ disk' = Del(disk, up[t].filename)
    /\ active_transfers' = Del(active_transfers, get_file_hash(up[t].filename))
    /\ lock_owner' = [lock_owner EXCEPT !["transfer_lock"] = None]
    /\ Reply(t, Response(500, "error"))
    /\ up' = [up EXCEPT ![t] = UpIdle]
    /\ UNCHANGED <<chat_messages, chat_log, otherThanFiles, temp, metadata,
                   assembling_files, down, job>>

\* the uploading browser posts one chunk of its file that it has not sent yet
SendChunk(t) ==
    /\ \E chunk_index \in job.unsent :
          /\ upload_chunk_save(t, "c1", job.filename, chunk_index, job.total,
                               job.data[chunk_index + 1])
          /\ job' = [job EXCEPT !.unsent = @ \ {chunk_index}]

\* any chunk request for the name: an index below a total, which need not
\* belong to one upload (an abandoned upload followed by another, a retry)
SendAny(t) ==
    /\ SystemChats < MaxChat
    /\ \A id \in DOMAIN active_transfers : active_transfers[id].total_bytes < MaxRequests
    /\ \E total_chunks \in 1..MaxChunks : \E chunk_index \in 0..(total_chunks - 1) :
          upload_chunk_save(t, "c1", UploadName, chunk_index, total_chunks, <<chunk_index>>)
    /\ UNCHANGED job

----------------------------------------------------------------------------
(* delete_file, one step per access to shared state *)

\* the names the delete button may post
DeleteNames == {UploadName, secure_filename(UploadName)}

delete_file_begin(b) ==
    /\ check_if_kicked(b, [Idle EXCEPT !.pc = "delete_file"])
    /\ UNCHANGED <<chat_messages, chat_log, connected_users, kicked_users,
                   pending_clients, client_history, now, lock_owner, next_id,
                   kick_returned, approved_polls, fileVars>>

\* login_required, the role check, then os.remove(filepath) if the file exists
delete_file(b) ==
    /\ req[b].pc = "delete_file"
    /\ IF ~session[b].logged_in
       THEN /\ Reply(b, Response(302, "login")) /\ Finish(b)
            /\ UNCHANGED disk
       ELSE IF ~IsHost(b)
       THEN /\ Reply(b, Response(403, "Permission denied")) /\ Finish(b)
            /\ UNCHANGED disk
       ELSE \E raw \in DeleteNames :
            LET filename == secure_filename(raw)
            IN  /\ SystemChats < MaxChat
                /\ disk' = Del(disk, filename)
                /\ req' = [req EXCEPT ![b].pc = "delete_metadata", ![b].name = filename]
                /\ Quiet
    /\ UNCHANGED <<chat_messages, chat_log, connected_users, kicked_users,
                   pending_clients, client_history, now, session, lock_owner, next_id,
                   kick_returned, approved_polls, temp, metadata, active_transfers,
                   assembling_files, up, down, job, folderVars, sideVars>>

\* os.remove(metadata_path) if the sidecar exists
delete_metadata(b) ==
    /\ req[b].pc = "delete_metadata"
    /\ metadata' = Del(metadata, req[b].name)
    /\ req' = [req EXCEPT ![b].pc = "delete_chat"]
    /\ Quiet
    /\ UNCHANGED <<chat_messages, chat_log, connected_users, kicked_users,
                   pending_clients, client_history, now, session, lock_owner, next_id,
                   kick_returned, approved_polls, disk, temp, active_transfers,
                   assembling_files, up, down, job, folderVars, sideVars>>

\* the chat is told and the request answers success
delete_chat(b) ==
    /\ req[b].pc = "delete_chat"
    /\ Free("chat_lock")
    /\ LET message == <<"deleted", session[b].username, req[b].name>>
       IN  /\ chat_messages' = add_chat_message(chat_messages, <<"System">>, message, "system")
           /\ chat_log' = Append(chat_log, ChatEntry(<<"System">>, message, "system"))
    /\ Reply(b, Response(200, "success"))
    /\ Finish(b)
    /\ UNCHANGED <<connected_users, kicked_users, pending_clients, client_history,
                   now, session, lock_owner, next_id, kick_returned, approved_polls,
                   fileVars>>

----------------------------------------------------------------------------
(* Range headers as text *)

Digits == <<"0", "1", "2", "3", "4", "5", "6", "7", "8", "9">>

\* str(n), as in the f-string of Content-Range and in str(length)
RECURSIVE str(_)
str(n) ==
    IF n < 0 THEN <<"-">> \o str(0 - n)
    ELSE IF n < 10 THEN <<Digits[n + 1]>>
    ELSE str(n \div 10) \o <<Digits[(n % 10) + 1]>>

\* s.replace(old, ''): every occurrence of old, left to right, is removed
RECURSIVE remove(_, _)
remove(s, old) ==
    IF Len(s) < Len(old) THEN s
    ELSE IF SubSeq(s, 1, Len(old)) = old
         THEN remove(SubSeq(s, Len(old) + 1, Len(s)), old)
    ELSE <<Head(s)>> \o remove(Tail(s), old)

\* s.split('-'): the pieces between the dashes; always at least one piece
RECURSIVE split(_)
split(s) ==
    IF \A i \in 1..Len(s) : s[i] # "-" THEN <<s>>
    ELSE LET dash == CHOOSE i \in 1..Len(s) : s[i] = "-" /\ \A j \in 1..(i - 1) : s[j] # "-"
         IN  <<SubSeq(s, 1, dash - 1)>> \o split(SubSeq(s, dash + 1, Len(s)))

\* what stands for the ValueError of int() and the IndexError of byte_range[1]
Raised == 0 - 1

\* int(s) for a piece of split('-'): decimal digits give their value, an empty
\* or non-numeric piece raises
RECURSIVE int(_)
int(s) ==
    IF s = <<>> THEN Raised
    ELSE IF \E i \in 1..Len(s) : \A d \in 1..10 : Digits[d] # s[i] THEN Raised
    ELSE LET last == (CHOOSE d \in 1..10 : Digits[d] = s[Len(s)]) - 1
         IN  IF Len(s) = 1 THEN last ELSE 10 * int(SubSeq(s, 1, Len(s) - 1)) + last

BytesEq == <<"b", "y", "t", "e", "s", "=">>

\* byte_range[0] and byte_range[1] of the header, start and end taken from them
\* (an empty piece gives 0 and file_size - 1); a header without a dash or with a
\* piece int() refuses raises
ParseRange(range_header, file_size) ==
    LET byte_range == split(remove(range_header, BytesEq))
        numeric(piece) == piece = <<>> \/ int(piece) # Raised
    IN  IF Len(byte_range) < 2 \/ ~numeric(byte_range[1]) \/ ~numeric(byte_range[2])
        THEN [ok |-> FALSE, start |-> 0, end |-> 0]
        ELSE [ok |-> TRUE,
              start |-> IF byte_range[1] # <<>> THEN int(byte_range[1]) ELSE 0,
              end |-> IF byte_range[2] # <<>> THEN int(byte_range[2]) ELSE file_size - 1]

Min(a, b) == IF a < b THEN a ELSE b

generate_range_NoSeek(file, pos, remaining) == SubSeq(file, 1, Min(remaining, Len(file)))

\* generate_range: seek(start), then read min(CHUNK_SIZE, remaining) bytes at a
\* time until the length is served or the file ends
RECURSIVE generate_range(_, _, _)
generate_range(file, pos, remaining) ==
    IF remaining <= 0 THEN <<>>
    ELSE LET data == SubSeq(file, pos + 1, Min(pos + Min(CHUNK_SIZE, remaining), Len(file)))
         IN  IF data = <<>> THEN <<>>
             ELSE data \o generate_range(file, pos + Len(data), remaining - Len(data))

\* generate: read CHUNK_SIZE bytes at a time until the file ends
RECURSIVE generate(_, _)
generate(file, pos) ==
    LET chunk == SubSeq(file, pos + 1, Min(pos + CHUNK_SIZE, Len(file)))
    IN  IF chunk = <<>> THEN <<>> ELSE chunk \o generate(file, pos + Len(chunk))

\* 'bytes=a-b' as a browser writes it; an open side is left empty
Open == 0 - 1
RangeHeader(a, b) ==
    BytesEq \o (IF a = Open THEN <<>> ELSE str(a)) \o <<"-">>
            \o (IF b = Open THEN <<>> ELSE str(b))

ContentRange(start, end, file_size) ==
    <<"b", "y", "t", "e", "s", " ">> \o str(start) \o <<"-">> \o str(end) \o <<"/">>
        \o str(file_size)

----------------------------------------------------------------------------
(* Download: download_parallel, one step per access to shared state *)

\* request.headers.get('Range', None) when the header is absent
NoRange == <<>>

DownIdle ==
    [pc |-> "idle", by |-> None, filename |-> <<>>, assembling |-> FALSE,
     loaded |-> DefaultMetadata(<<>>), range |-> NoRange, file_size |-> 0,
     status |-> 0, content_range |-> <<>>, content_length |-> <<>>,
     start |-> 0, length |-> 0, body |-> <<>>]

\* the download records written so far, and those the requests in flight will write
Recorded ==
    LET RECURSIVE Total(_)
        Total(names) ==
            IF names = {} THEN 0
            ELSE LET n == CHOOSE n \in names : TRUE
                 IN  Len(metadata[n].downloads) + Total(names \ {n})
    IN  Total(DOMAIN metadata)
        + Cardinality({t \in DownloadThreads : down[t].pc \in {"exists", "load", "save"}})

DownDone(t, status) == [down[t] EXCEPT !.pc = "done", !.status = status]

\* with assembling_lock: if filename in assembling_files -> 425; the name tested
\* is the one of the URL. The field 'assembling' notes whether the file the
\* request resolves to is being assembled at that moment.
download_parallel_check(t, b, raw) ==
    /\ down[t].pc \in {"idle", "done"}
    /\ Admitted(b)
    /\ Recorded < MaxDownloads
    /\ LET request == [DownIdle EXCEPT
                          !.by = b, !.filename = raw,
                          !.assembling = (secure_filename(raw) \in assembling_files)]
       IN  IF raw \in assembling_files
           THEN /\ down' = [down EXCEPT ![t] = [request EXCEPT !.pc = "done", !.status = 425]]
                /\ Reply(t, Response(425, "assembling"))
           ELSE /\ down' = [down EXCEPT ![t] = [request EXCEPT !.pc = "exists"]]
                /\ Quiet
    /\ UNCHANGED <<chat_messages, chat_log, lock_owner, otherThanFiles, disk, temp,
                   metadata, active_transfers, assembling_files, up, job>>

\* os.path.exists(filepath), filepath being UPLOAD_FOLDER/secure_filename(filename)
download_parallel_exists(t) ==
    /\ down[t].pc = "exists"
    /\ IF secure_filename(down[t].filename) \notin DOMAIN disk
       THEN /\ down' = [down EXCEPT ![t] = DownDone(t, 404)]
            /\ Reply(t, Response(404, "File not found"))
       ELSE /\ down' = [down EXCEPT ![t].pc = "load"]
            /\ Quiet
    /\ UNCHANGED <<chat_messages, chat_log, lock_owner, otherThanFiles, disk, temp,
                   metadata, active_transfers, assembling_files, up, job>>

\* add_download_record, first half: load_file_metadata(filename) of the URL name
download_parallel_load(t) ==
    /\ down[t].pc = "load"
    /\ LET filename == down[t].filename
       IN  down' = [down EXCEPT
                       ![t].pc = "save",
                       ![t].loaded = IF filename \in DOMAIN metadata
                                     THEN metadata[filename]
                                     ELSE DefaultMetadata(filename)]
    /\ Quiet
    /\ UNCHANGED <<chat_messages, chat_log, lock_owner, otherThanFiles, disk, temp,
                   metadata, active_transfers, assembling_files, up, job>>

\* add_download_record, second half: the record is appended to what was loaded
\* and the sidecar is written back
download_parallel_save(t) ==
    /\ down[t].pc = "save"
    /\ LET download_record == [username |-> session[down[t].by].username, timestamp |-> now]
       IN  metadata' = Put(metadata, down[t].filename,
                           [down[t].loaded EXCEPT !.downloads = Append(@, download_record)])
    /\ down' = [down EXCEPT ![t].pc = "respond", ![t].loaded = DefaultMetadata(<<>>)]
    /\ Quiet
    /\ UNCHANGED <<chat_messages, chat_log, lock_owner, otherThanFiles, disk, temp,
                   active_transfers, assembling_files, up, job>>

\* os.path.getsize(filepath), the Range header is parsed, status and headers are
\* fixed; an exception here is an unhandled one, which Flask answers with 500
download_parallel_respond(t, headers) ==
    /\ down[t].pc = "respond"
    /\ \E range_header \in headers :
       LET filepath == secure_filename(down[t].filename)
           file_size == Len(disk[filepath])
           parsed == ParseRange(range_header, file_size)
           length == parsed.end - parsed.start + 1
       IN  IF filepath \notin DOMAIN disk \/ (range_header # NoRange /\ ~parsed.ok)
           THEN /\ down' = [down EXCEPT ![t] = [DownDone(t, 500) EXCEPT !.range = range_header]]
                /\ Reply(t, Response(500, "Internal Server Error"))
           ELSE IF range_header # NoRange
           THEN /\ down' = [down EXCEPT ![t] =
                               [@ EXCEPT !.pc = "stream", !.range = range_header,
                                         !.file_size = file_size, !.status = 206,
                                         !.content_range =
                                             ContentRange(parsed.start, parsed.end, file_size),
                                         !.content_length = str(length),
                                         !.start = parsed.start, !.length = length]]
                /\ Reply(t, Response(206, "partial"))
           ELSE /\ down' = [down EXCEPT ![t] =
                               [@ EXCEPT !.pc = "stream", !.file_size = file_size,
                                         !.status = 200, !.content_length = str(file_size)]]
                /\ Reply(t, Response(200, "file"))
    /\ UNCHANGED <<chat_messages, chat_log, lock_owner, otherThanFiles, disk, temp,
                   metadata, active_transfers, assembling_files, up, job>>

\* the generator runs while the response is sent: it opens the file as it is
\* then and yields the bytes
download_parallel_stream(t) ==
    /\ down[t].pc = "stream"
    /\ LET filepath == secure_filename(down[t].filename)
           file == IF filepath \in DOMAIN disk THEN disk[filepath] ELSE <<>>
       IN  down' = [down EXCEPT
                       ![t].pc = "done",
                       ![t].body = IF down[t].status = 206
                                   THEN generate_range(file, down[t].start, down[t].length)
                                   ELSE generate(file, 0)]
    /\ Quiet
    /\ UNCHANGED <<chat_messages, chat_log, lock_owner, otherThanFiles, disk, temp,
                   metadata, active_transfers, assembling_files, up, job>>

\* the names a browser may ask for: the uploaded name as typed, the name the
\* file is stored under, and a name no file has
DownloadNames == {UploadName, secure_filename(UploadName), <<"x">>}

----------------------------------------------------------------------------
(* Single-shot upload: upload_parallel, one step per access to the file *)

FallbackIdle == [pc |-> "idle", by |-> None, filename |-> <<>>, data |-> <<>>]

\* the file the fallback form posts
FallbackData == <<4, 5>>

otherThanFallback ==
    <<connected_users, kicked_users, pending_clients, client_history, now, session, req,
      lock_owner, next_id, kick_returned, approved_polls, temp, active_transfers,
      assembling_files, up, down, job, folderVars, feed>>

\* is_username_set, then f.save(filepath) opens the file for writing: it is
\* created, or truncated when it exists; a posted file without a name is skipped
upload_parallel_open(b, raw, data) ==
    /\ fallback.pc = "idle"
    /\ Admitted(b)
    /\ IF raw = <<>>
       THEN /\ Reply(b, Response(302, "files"))
            /\ UNCHANGED <<disk, fallback>>
       ELSE /\ disk' = Put(disk, secure_filename(raw), <<>>)
            /\ fallback' = [pc |-> "write", by |-> b, filename |-> secure_filename(raw),
                            data |-> data]
            /\ Quiet
    /\ UNCHANGED <<chat_messages, chat_log, metadata, otherThanFallback>>

\* f.save copies the posted stream to the file buffer by buffer
upload_parallel_write(b) ==
    /\ fallback.pc = "write"
    /\ fallback.by = b
    /\ disk' = IF fallback.filename \in DOMAIN disk
               THEN [disk EXCEPT ![fallback.filename] = write(@, <<Head(fallback.data)>>)]
               ELSE disk
    /\ fallback' = [fallback EXCEPT !.data = Tail(@),
                                    !.pc = IF Len(fallback.data) = 1 THEN "metadata"
                                           ELSE "write"]
    /\ Quiet
    /\ UNCHANGED <<chat_messages, chat_log, metadata, otherThanFallback>>

\* os.path.getsize(filepath) and save_file_metadata; a file that is gone raises,
\* and the except of the handler goes on to the redirect
upload_parallel_metadata(b) ==
    /\ fallback.pc = "metadata"
    /\ fallback.by = b
    /\ IF fallback.filename \notin DOMAIN disk
       THEN /\ Reply(b, Response(302, "files"))
            /\ fallback' = FallbackIdle
            /\ UNCHANGED metadata
       ELSE /\ metadata' = Put(metadata, fallback.filename,
                               FileMetadata(fallback.filename, session[b].username,
                                            Len(disk[fallback.filename])))
            /\ fallback' = [fallback EXCEPT !.pc = "chat"]
            /\ Quiet
    /\ UNCHANGED <<chat_messages, chat_log, disk, otherThanFallback>>

\* add_chat_message, then the redirect to the files page
upload_parallel_chat(b) ==
    /\ fallback.pc = "chat"
    /\ fallback.by = b
    /\ Free("chat_lock")
    /\ LET message == <<"uploaded", session[b].username, fallback.filename>>
       IN  /\ chat_messages' = add_chat_message(chat_messages, <<"System">>, message, "system")
           /\ chat_log' = Append(chat_log, ChatEntry(<<"System">>, message, "system"))
    /\ fallback' = FallbackIdle
    /\ Reply(b, Response(302, "files"))
    /\ UNCHANGED <<disk, metadata, otherThanFallback>>

----------------------------------------------------------------------------
(* Folder upload: upload_folder_start, upload_folder_file, upload_folder_finalize
   and its background thread create_zip_background *)

FinalizeThreads == {"f1", "f2"}
ZipOrder == <<"z1", "z2">>
ZipThreads == {ZipOrder[i] : i \in 1..Len(ZipOrder)}

\* a field the record of this status does not have
Missing == 0 - 1

\* everything the folder handlers never touch
otherThanFolders ==
    <<connected_users, kicked_users, pending_clients, client_history, now, session,
      req, next_id, kick_returned, approved_polls, lock_owner, temp, active_transfers,
      up, down, job, sideVars>>

FinIdle == [pc |-> "idle", by |-> None, folder_id |-> 0, folder_name |-> <<>>,
            username |-> <<>>, zip_filename |-> <<>>]

ZipFree == [pc |-> "free", folder_id |-> 0, folder_name |-> <<>>, username |-> <<>>,
            zip_filename |-> <<>>, total_files_to_zip |-> 0, todo |-> {},
            file_count |-> 0, final_size |-> 0, error |-> None]

\* the folder names the browser may post, and the files it may put into a folder
FolderNames == {<<"f">>, <<"g", "/">>}
RelativePaths == {<<"x">>, <<"/", "g">>}
FileData == {<<7>>}

\* the session record of a folder upload; its temp_path is folder_<folder_id>,
\* the key of tree
NewFolder(folder_name, username) ==
    [folder_name |-> folder_name, username |-> username, received_files |-> 0,
     received_bytes |-> 0]

\* makedirs of the temp tree, then the session is recorded under a fresh uuid4
upload_folder_start(b, raw) ==
    /\ Admitted(b)
    /\ next_folder < MaxFolders
    /\ LET folder_id == next_folder + 1
       IN  /\ next_folder' = folder_id
           /\ tree' = Put(tree, folder_id, NoEntries)
           /\ folder_uploads' = Put(folder_uploads, folder_id,
                                    NewFolder(secure_filename(raw), session[b].username))
           /\ Reply(b, [Response(200, "success") EXCEPT !.client_id = folder_id])
    /\ UNCHANGED <<chat_messages, chat_log, otherThanFolders, disk, metadata,
                   assembling_files, folder_finalize_status, fin, zip>>

\* a finalize request for the folder has been received
Finalizing(folder_id) ==
    \/ folder_id \in DOMAIN folder_finalize_status
    \/ \E t \in FinalizeThreads : fin[t].pc # "idle" /\ fin[t].folder_id = folder_id

\* the session of the folder id has counted fewer than this many files
Below(folder_id, files) ==
    folder_id \in DOMAIN folder_uploads =>
        folder_uploads[folder_id].received_files < files

\* one single-chunk file of the folder, sent by the page before it asks for the
\* archive: the path is made safe part by part, the file is saved in the temp
\* tree and counted
upload_folder_file(b, folder_id, relative_path, chunk) ==
    /\ Admitted(b)
    /\ ~Finalizing(folder_id)
    /\ IF folder_id \notin DOMAIN folder_uploads
       THEN /\ Reply(b, Response(400, "Invalid folder upload session"))
            /\ UNCHANGED <<tree, folder_uploads>>
       ELSE LET safe_relative_path == secure_filename(relative_path)
            IN  /\ tree' = [tree EXCEPT ![folder_id] = Put(@, safe_relative_path, chunk)]
                /\ folder_uploads' =
                      [folder_uploads EXCEPT
                          ![folder_id].received_files = @ + 1,
                          ![folder_id].received_bytes = @ + Len(chunk)]
                /\ Reply(b, Response(200, "success"))
    /\ UNCHANGED <<chat_messages, chat_log, otherThanFolders, disk, metadata,
                   assembling_files, folder_finalize_status, fin, zip, next_folder>>

ZipSuffix == <<".", "z", "i", "p">>

\* the while loop of upload_folder_finalize: the first of name.zip, name_1.zip,
\* name_2.zip ... that os.path.exists does not find
RECURSIVE FreeName(_, _, _)
FreeName(files, folder_name, counter) ==
    LET zip_filename == IF counter = 0 THEN folder_name \o ZipSuffix
                        ELSE folder_name \o <<"_">> \o str(counter) \o ZipSuffix
    IN  IF zip_filename \in files THEN FreeName(files, folder_name, counter + 1)
        ELSE zip_filename

\* is_username_set and the test that the folder id is a known session
upload_folder_finalize_check(t, b, folder_id) ==
    /\ fin[t].pc = "idle"
    /\ Admitted(b)
    /\ IF folder_id \notin DOMAIN folder_uploads
       THEN /\ Reply(t, Response(400, "Invalid folder upload session"))
            /\ UNCHANGED fin
       ELSE /\ fin' = [fin EXCEPT ![t] = [FinIdle EXCEPT !.pc = "info", !.by = b,
                                                         !.folder_id = folder_id]]
            /\ Quiet
    /\ UNCHANGED <<chat_messages, chat_log, otherThanFolders, disk, metadata,
                   assembling_files, folder_uploads, folder_finalize_status, tree, zip,
                   next_folder>>

\* with folder_uploads_lock: the session record is read; a record deleted since
\* the check is a KeyError, answered 500 by the handler's except
upload_folder_finalize_info(t) ==
    /\ fin[t].pc = "info"
    /\ IF fin[t].folder_id \notin DOMAIN folder_uploads
       THEN /\ Reply(t, Response(500, "error"))
            /\ fin' = [fin EXCEPT ![t] = FinIdle]
       ELSE /\ fin' = [fin EXCEPT
                          ![t].pc = "name",
                          ![t].folder_name = folder_uploads[fin[t].folder_id].folder_name,
                          ![t].username = folder_uploads[fin[t].folder_id].username]
            /\ Quiet
    /\ UNCHANGED <<chat_messages, chat_log, otherThanFolders, disk, metadata,
                   assembling_files, folder_uploads, folder_finalize_status, tree, zip,
                   next_folder>>

\* the archive name is chosen by looking at the upload folder
upload_folder_finalize_name(t) ==
    /\ fin[t].pc = "name"
    /\ fin' = [fin EXCEPT ![t].pc = "mark",
                          ![t].zip_filename = FreeName(DOMAIN disk, fin[t].folder_name, 0)]
    /\ Quiet
    /\ UNCHANGED <<chat_messages, chat_log, otherThanFolders, disk, metadata,
                   assembling_files, folder_uploads, folder_finalize_status, tree, zip,
                   next_folder>>

\* with assembling_lock: the archive name is marked as assembling
upload_folder_finalize_mark(t) ==
    /\ fin[t].pc = "mark"
    /\ assembling_files' = assembling_files \cup {fin[t].zip_filename}
    /\ fin' = [fin EXCEPT ![t].pc = "status"]
    /\ Quiet
    /\ UNCHANGED <<chat_messages, chat_log, otherThanFolders, disk, metadata,
                   folder_uploads, folder_finalize_status, tree, zip, next_folder>>

FinalizeStatus(status, progress, filename, error, size, fileCount) ==
    [status |-> status, progress |-> progress, filename |-> filename, error |-> error,
     size |-> size, fileCount |-> fileCount]

\* with folder_finalize_lock: the status of the folder id becomes 'processing'
upload_folder_finalize_status_init(t) ==
    /\ fin[t].pc = "status"
    /\ folder_finalize_status' =
          Put(folder_finalize_status, fin[t].folder_id,
              FinalizeStatus("processing", 0, fin[t].zip_filename, None, Missing, Missing))
    /\ fin' = [fin EXCEPT ![t].pc = "start"]
    /\ Quiet
    /\ UNCHANGED <<chat_messages, chat_log, otherThanFolders, disk, metadata,
                   assembling_files, folder_uploads, tree, zip, next_folder>>

\* threading.Thread(target=create_zip_background).start(), and the request
\* answers at once
upload_folder_finalize_start(t) ==
    /\ fin[t].pc = "start"
    /\ \E i \in 1..Len(ZipOrder) :
          /\ zip[ZipOrder[i]].pc = "free"
          /\ \A j \in 1..(i - 1) : zip[ZipOrder[j]].pc # "free"
          /\ zip' = [zip EXCEPT ![ZipOrder[i]] =
                        [ZipFree EXCEPT !.pc = "count", !.folder_id = fin[t].folder_id,
                                        !.folder_name = fin[t].folder_name,
                                        !.username = fin[t].username,
                                        !.zip_filename = fin[t].zip_filename]]
    /\ Reply(t, [Response(200, "ZIP creation started in background")
                    EXCEPT !.client_id = fin[t].folder_id])
    /\ fin' = [fin EXCEPT ![t] = FinIdle]
    /\ UNCHANGED <<chat_messages, chat_log, otherThanFolders, disk, metadata,
                   assembling_files, folder_uploads, folder_finalize_status, tree,
                   next_folder>>

\* os.walk of a temp tree: its files, none if the tree is gone
Walk(folder_id) == IF folder_id \in DOMAIN tree THEN DOMAIN tree[folder_id] ELSE {}

\* the first os.walk counts the files
create_zip_count(z) ==
    /\ zip[z].pc = "count"
    /\ zip' = [zip EXCEPT ![z].pc = "open",
                          ![z].total_files_to_zip = Cardinality(Walk(zip[z].folder_id))]
    /\ Quiet
    /\ UNCHANGED <<chat_messages, chat_log, otherThanFolders, disk, metadata,
                   assembling_files, folder_uploads, folder_finalize_status, tree, fin,
                   next_folder>>

\* zipfile.ZipFile(zip_path, 'w') creates or truncates the archive, and the
\* second os.walk lists the files to add
create_zip_open(z) ==
    /\ zip[z].pc = "open"
    /\ disk' = Put(disk, zip[z].zip_filename, <<>>)
    /\ zip' = [zip EXCEPT ![z].pc = "write", ![z].todo = Walk(zip[z].folder_id)]
    /\ Quiet
    /\ UNCHANGED <<chat_messages, chat_log, otherThanFolders, metadata, assembling_files,
                   folder_uploads, folder_finalize_status, tree, fin, next_folder>>

\* bytes written through an open archive reach the file while its name is in
\* the folder
Written(files, filename, bytes) ==
    IF filename \in DOMAIN files THEN [files EXCEPT ![filename] = @ \o bytes] ELSE files

\* the end-of-archive record ZipFile writes when it is closed
EndOfArchive == <<0>>

\* int((file_count / total_files_to_zip) * 100)
Progress(file_count, total_files_to_zip) == (file_count * 100) \div total_files_to_zip

\* zipf.write of one listed file, then the progress under folder_finalize_lock;
\* the write raises when the file is gone or the disk refuses the bytes, and
\* the with-statement closes the archive on the way out
create_zip_write(z, written) ==
    /\ zip[z].pc = "write"
    /\ \E path \in zip[z].todo :
          LET folder_id == zip[z].folder_id
              there == folder_id \in DOMAIN tree /\ path \in DOMAIN tree[folder_id]
              file_count == zip[z].file_count + 1
          IN  IF there /\ written
              THEN /\ disk' = Written(disk, zip[z].zip_filename, tree[folder_id][path])
                   /\ zip' = [zip EXCEPT ![z].todo = @ \ {path},
                                         ![z].file_count = file_count]
                   /\ IF zip[z].total_files_to_zip > 0
                      THEN folder_finalize_status' =
                              [folder_finalize_status EXCEPT
                                  ![folder_id].progress =
                                      Progress(file_count, zip[z].total_files_to_zip)]
                      ELSE UNCHANGED folder_finalize_status
              ELSE /\ disk' = Written(disk, zip[z].zip_filename, EndOfArchive)
                   /\ zip' = [zip EXCEPT ![z].pc = "fail",
                                         ![z].error = IF there THEN "OSError"
                                                      ELSE "FileNotFoundError"]
                   /\ UNCHANGED folder_finalize_status
    /\ Quiet
    /\ UNCHANGED <<chat_messages, chat_log, otherThanFolders, metadata, assembling_files,
                   folder_uploads, tree, fin, next_folder>>

\* every listed file is in: the archive is closed
create_zip_close(z) ==
    /\ zip[z].pc = "write"
    /\ zip[z].todo = {}
    /\ disk' = Written(disk, zip[z].zip_filename, EndOfArchive)
    /\ zip' = [zip EXCEPT ![z].pc = "rmtree"]
    /\ Quiet
    /\ UNCHANGED <<chat_messages, chat_log, otherThanFolders, metadata, assembling_files,
                   folder_uploads, folder_finalize_status, tree, fin, next_folder>>

\* shutil.rmtree(folder_temp_path, ignore_errors=True)
create_zip_rmtree(z) ==
    /\ zip[z].pc = "rmtree"
    /\ tree' = Del(tree, zip[z].folder_id)
    /\ zip' = [zip EXCEPT ![z].pc = "size"]
    /\ Quiet
    /\ UNCHANGED <<chat_messages, chat_log, otherThanFolders, disk, metadata,
                   assembling_files, folder_uploads, folder_finalize_status, fin,
                   next_folder>>

\* os.path.getsize(zip_path), FileNotFoundError if the archive is gone
create_zip_size(z) ==
    /\ zip[z].pc = "size"
    /\ IF zip[z].zip_filename \in DOMAIN disk
       THEN zip' = [zip EXCEPT ![z].pc = "metadata",
                               ![z].final_size = Len(disk[zip[z].zip_filename])]
       ELSE zip' = [zip EXCEPT ![z].pc = "fail", ![z].error = "FileNotFoundError"]
    /\ Quiet
    /\ UNCHANGED <<chat_messages, chat_log, otherThanFolders, disk, metadata,
                   assembling_files, folder_uploads, folder_finalize_status, tree, fin,
                   next_folder>>

\* the metadata of an archive: the file's, with the folder fields
FolderMetadata(zip_filename, username, final_size, folder_name, file_count) ==
    [filename |-> zip_filename, uploaded_by |-> username, file_size |-> final_size,
     downloads |-> <<>>, is_folder |-> TRUE, original_folder |-> folder_name,
     file_count |-> file_count]

\* save_file_metadata(zip_filename, metadata)
create_zip_metadata(z) ==
    /\ zip[z].pc = "metadata"
    /\ metadata' = Put(metadata, zip[z].zip_filename,
                       FolderMetadata(zip[z].zip_filename, zip[z].username,
                                      zip[z].final_size, zip[z].folder_name,
                                      zip[z].file_count))
    /\ zip' = [zip EXCEPT ![z].pc = "unmark"]
    /\ Quiet
    /\ UNCHANGED <<chat_messages, chat_log, otherThanFolders, disk, assembling_files,
                   folder_uploads, folder_finalize_status, tree, fin, next_folder>>

\* with assembling_lock: the name leaves assembling_files
create_zip_unmark(z) ==
    /\ zip[z].pc = "unmark"
    /\ assembling_files' = assembling_files \ {zip[z].zip_filename}
    /\ zip' = [zip EXCEPT ![z].pc = "forget"]
    /\ Quiet
    /\ UNCHANGED <<chat_messages, chat_log, otherThanFolders, disk, metadata,
                   folder_uploads, folder_finalize_status, tree, fin, next_folder>>

\* with folder_uploads_lock: the upload session is deleted
create_zip_forget(z) ==
    /\ zip[z].pc = "forget"
    /\ folder_uploads' = Del(folder_uploads, zip[z].folder_id)
    /\ zip' = [zip EXCEPT ![z].pc = "chat"]
    /\ Quiet
    /\ UNCHANGED <<chat_messages, chat_log, otherThanFolders, disk, metadata,
                   assembling_files, folder_finalize_status, tree, fin, next_folder>>

FolderChat(username, folder_name, file_count, final_size) ==
    <<"uploaded folder", username, folder_name, file_count, final_size>>

\* add_chat_message('System', '<username> uploaded folder <folder_name>/ ...')
create_zip_chat(z) ==
    /\ zip[z].pc = "chat"
    /\ Free("chat_lock")
    /\ LET message == FolderChat(zip[z].username, zip[z].folder_name, zip[z].file_count,
                                 zip[z].final_size)
       IN  /\ chat_messages' = add_chat_message(chat_messages, <<"System">>, message, "system")
           /\ chat_log' = Append(chat_log, ChatEntry(<<"System">>, message, "system"))
    /\ zip' = [zip EXCEPT ![z].pc = "complete"]
    /\ Quiet
    /\ UNCHANGED <<otherThanFolders, disk, metadata, assembling_files, folder_uploads,
                   folder_finalize_status, tree, fin, next_folder>>

\* with folder_finalize_lock: the status becomes 'complete'
create_zip_complete(z) ==
    /\ zip[z].pc = "complete"
    /\ folder_finalize_status' =
          Put(folder_finalize_status, zip[z].folder_id,
              FinalizeStatus("complete", 100, zip[z].zip_filename, None,
                             zip[z].final_size, zip[z].file_count))
    /\ zip' = [zip EXCEPT ![z].pc = "done"]
    /\ Quiet
    /\ UNCHANGED <<chat_messages, chat_log, otherThanFolders, disk, metadata,
                   assembling_files, folder_uploads, tree, fin, next_folder>>

\* except Exception: the name leaves assembling_files
create_zip_fail(z) ==
    /\ zip[z].pc = "fail"
    /\ assembling_files' = assembling_files \ {zip[z].zip_filename}
    /\ zip' = [zip EXCEPT ![z].pc = "fail_remove"]
    /\ Quiet
    /\ UNCHANGED <<chat_messages, chat_log, otherThanFolders, disk, metadata,
                   folder_uploads, folder_finalize_status, tree, fin, next_folder>>

\* os.remove(zip_path) if it exists
create_zip_fail_remove(z) ==
    /\ zip[z].pc = "fail_remove"
    /\ disk' = Del(disk, zip[z].zip_filename)
    /\ zip' = [zip EXCEPT ![z].pc = "fail_rmtree"]
    /\ Quiet
    /\ UNCHANGED <<chat_messages, chat_log, otherThanFolders, metadata, assembling_files,
                   folder_uploads, folder_finalize_status, tree, fin, next_folder>>

\* shutil.rmtree(folder_temp_path, ignore_errors=True)
create_zip_fail_rmtree(z) ==
    /\ zip[z].pc = "fail_rmtree"
    /\ tree' = Del(tree, zip[z].folder_id)
    /\ zip' = [zip EXCEPT ![z].pc = "fail_forget"]
    /\ Quiet
    /\ UNCHANGED <<chat_messages, chat_log, otherThanFolders, disk, metadata,
                   assembling_files, folder_uploads, folder_finalize_status, fin,
                   next_folder>>

\* with folder_uploads_lock: the upload session is deleted
create_zip_fail_forget(z) ==
    /\ zip[z].pc = "fail_forget"
    /\ folder_uploads' = Del(folder_uploads, zip[z].folder_id)
    /\ zip' = [zip EXCEPT ![z].pc = "fail_status"]
    /\ Quiet
    /\ UNCHANGED <<chat_messages, chat_log, otherThanFolders, disk, metadata,
                   assembling_files, folder_finalize_status, tree, fin, next_folder>>

create_zip_fail_status_Dies(z) ==
    /\ zip[z].pc = "fail_status"
    /\ zip' = [zip EXCEPT ![z].pc = "done"]
    /\ Quiet
    /\ UNCHANGED <<chat_messages, chat_log, otherThanFolders, disk, metadata,
                   assembling_files, folder_uploads, folder_finalize_status, tree, fin,
                   next_folder>>

\* with folder_finalize_lock: the status becomes 'error' with str(e)
create_zip_fail_status(z) ==
    /\ zip[z].pc = "fail_status"
    /\ folder_finalize_status' =
          Put(folder_finalize_status, zip[z].folder_id,
              FinalizeStatus("error", 0, zip[z].zip_filename, zip[z].error,
                             Missing, Missing))
    /\ zip' = [zip EXCEPT ![z].pc = "done"]
    /\ Quiet
    /\ UNCHANGED <<chat_messages, chat_log, otherThanFolders, disk, metadata,
                   assembling_files, folder_uploads, tree, fin, next_folder>>

\* the steps of a background thread
create_zip_background(z) ==
    \/ create_zip_count(z)
    \/ create_zip_open(z)
    \/ \E written \in BOOLEAN : create_zip_write(z, written)
    \/ create_zip_close(z)
    \/ create_zip_rmtree(z)
    \/ create_zip_size(z)
    \/ create_zip_metadata(z)
    \/ create_zip_unmark(z)
    \/ create_zip_forget(z)
    \/ create_zip_chat(z)
    \/ create_zip_complete(z)
    \/ create_zip_fail(z)
    \/ create_zip_fail_remove(z)
    \/ create_zip_fail_rmtree(z)
    \/ create_zip_fail_forget(z)
    \/ create_zip_fail_status(z)

\* the page polls the status of its folder id
upload_folder_finalize_status(b, folder_id) ==
    /\ session[b].logged_in
    /\ ~IsKicked(b)
    /\ IF folder_id \in DOMAIN folder_finalize_status
       THEN Reply(b, [Response(200, folder_finalize_status[folder_id].status)
                         EXCEPT !.client_id = folder_id])
       ELSE Reply(b, Response(404, "unknown"))
    /\ UNCHANGED <<chat_messages, chat_log, otherThanFolders, disk, metadata,
                   assembling_files, folderVars, sideVars>>

----------------------------------------------------------------------------
(* Initial states *)

JoinedChat(name) ==
    [username |-> <<"System">>, message |-> <<"joined the chat", name>>,
     timestamp |-> 0, type |-> "system"]

\* the session login() sets up; dashboard() gives the role 'server', files() 'client'
LoggedIn(name, role) ==
    [logged_in |-> TRUE, username |-> name, role |-> role, join_approved |-> TRUE]

\* nobody is present, kicked or waiting, and nothing has been answered
NobodyYet ==
    /\ connected_users = <<>>
    /\ kicked_users = {}
    /\ pending_clients = <<>>
    /\ client_history = <<>>
    /\ next_id = 0

\* no request is in flight and no transfer is under way
InitRequests ==
    /\ now = 0
    /\ req = [b \in Browsers |-> Idle]
    /\ resp = Response(0, "none")
    /\ lock_owner = [l \in Locks |-> None]
    /\ kick_returned = {}
    /\ approved_polls = [cid \in 1..(MaxIds + 1) |-> 0]
    /\ temp = NoEntries
    /\ active_transfers = NoEntries
    /\ assembling_files = {}
    /\ up = [t \in UploadThreads |-> UpIdle]
    /\ down = [t \in DownloadThreads |-> DownIdle]
    /\ fin = [t \in FinalizeThreads |-> FinIdle]
    /\ zip = [z \in ZipThreads |-> ZipFree]
    /\ feed = [c \in FeedConnections |-> FeedClosed]
    /\ fallback = FallbackIdle

\* no folder upload has started
NoFolders ==
    /\ folder_uploads = NoEntries
    /\ folder_finalize_status = NoEntries
    /\ tree = NoEntries
    /\ next_folder = 0

InitShared == NobodyYet /\ InitRequests /\ NoFolders

NoJob == [filename |-> UploadName, total |-> 0, data |-> <<>>, unsent |-> {}]

\* nothing has been uploaded and nothing is being uploaded
NoFiles ==
    /\ disk = NoEntries
    /\ metadata = NoEntries
    /\ job = NoJob

\* the host has logged in and opened the dashboard; no client has joined yet
Init ==
    /\ InitShared
    /\ NoFiles
    /\ chat_messages = <<JoinedChat(HostName)>>
    /\ chat_log = chat_messages
    /\ session = [b \in Browsers |->
                     IF b = "host" THEN LoggedIn(HostName, "server") ELSE EmptySession]

\* host and two clients have logged in; the second client may use the host's name
InitPresence ==
    /\ InitShared
    /\ NoFiles
    /\ \E name2 \in {<<"b">>, HostName} :
          /\ chat_messages = <<JoinedChat(HostName), JoinedChat(<<"b">>), JoinedChat(name2)>>
          /\ session = [b \in Browsers |->
                           CASE b = "host" -> LoggedIn(HostName, "server")
                             [] b = "c1" -> LoggedIn(<<"b">>, "client")
                             [] OTHER -> LoggedIn(name2, "client")]
    /\ chat_log = chat_messages

\* host "H", the uploading client "b" and the downloading client "c" have logged in
Joined == <<JoinedChat(HostName), JoinedChat(<<"b">>), JoinedChat(<<"c">>)>>

FileSessions ==
    session = [b \in Browsers |->
                  CASE b = "host" -> LoggedIn(HostName, "server")
                    [] b = "c1" -> LoggedIn(<<"b">>, "client")
                    [] OTHER -> LoggedIn(<<"c">>, "client")]

\* UPLOAD_FOLDER, the sidecars and the chat after "b" has uploaded these bytes
\* under UploadName
Stored(bytes) ==
    LET filename == secure_filename(UploadName)
    IN  /\ disk = Put(NoEntries, filename, bytes)
        /\ metadata = Put(NoEntries, filename, FileMetadata(filename, <<"b">>, Len(bytes)))
        /\ chat_messages = Append(Joined, UploadedChat(<<"b">>, filename, Len(bytes)))

\* an earlier version of the file, longer than any the browser sends now
OldFile == [i \in 1..(2 * MaxChunks + 1) |-> 9]

\* the browser is about to send a file; an earlier version may be stored already
InitUpload ==
    /\ InitShared
    /\ FileSessions
    /\ job \in Jobs
    /\ \/ disk = NoEntries /\ metadata = NoEntries /\ chat_messages = Joined
       \/ Stored(OldFile)
    /\ chat_log = chat_messages

\* a file of S bytes, each byte telling its position
FileBytes(S) == [i \in 1..S |-> i % 256]

\* a file is stored and ready; nothing is being uploaded
InitRange ==
    /\ InitShared
    /\ FileSessions
    /\ job = NoJob
    /\ \E S \in {1, MaxFileSize} : Stored(FileBytes(S))
    /\ chat_log = chat_messages

\* the host and client "b" are logged in and "b" is listed as present, a file is
\* stored, "d" waits for an answer to a join request; the third browser is not
\* logged in, or is logged in as client "c", or is "c" and has just been kicked
InitPermission ==
    /\ InitRequests
    /\ NoFolders
    /\ job = NoJob
    /\ Stored(FileBytes(2))
    /\ chat_log = chat_messages
    /\ pending_clients = Insert(<<>>, 1, [name |-> <<"d">>, status |-> "pending",
                                          timestamp |-> 0, ip |-> "10.0.0.1"])
    /\ next_id = 1
    /\ client_history = <<>>
    /\ connected_users = <<[sid |-> <<"10.0.0.1", <<"b">>, "default">>, username |-> <<"b">>,
                            last_seen |-> 0, is_server |-> FALSE]>>
    /\ \E third \in {"absent", "client", "kicked"} :
          /\ session = [b \in Browsers |->
                           CASE b = "host" -> LoggedIn(HostName, "server")
                             [] b = "c1" -> LoggedIn(<<"b">>, "client")
                             [] OTHER -> IF third = "absent" THEN EmptySession
                                         ELSE LoggedIn(<<"c">>, "client")]
          /\ kicked_users = IF third = "kicked" THEN {<<"c">>} ELSE {}

\* no upload is planned; an earlier version of the file may be stored
InitUploadAny ==
    /\ InitShared
    /\ FileSessions
    /\ job = NoJob
    /\ \/ disk = NoEntries /\ metadata = NoEntries /\ chat_messages = Joined
       \/ Stored(OldFile)
    /\ chat_log = chat_messages

\* an archive of an earlier folder upload
OldArchive == <<7, 0>>

\* the clients have logged in and no folder upload has started; the upload
\* folder is empty or holds the archive of an earlier upload of folder f
InitFolder ==
    /\ InitShared
    /\ FileSessions
    /\ job = NoJob
    /\ chat_messages = Joined
    /\ chat_log = chat_messages
    /\ \/ disk = NoEntries /\ metadata = NoEntries
       \/ LET zip_filename == <<"f">> \o ZipSuffix
          IN  /\ disk = Put(NoEntries, zip_filename, OldArchive)
              /\ metadata = Put(NoEntries, zip_filename,
                                FolderMetadata(zip_filename, <<"c">>, Len(OldArchive),
                                               <<"f">>, 1))

\* the page has started the upload of folder f and sent its file; it has not
\* asked for the archive yet
InitFolderSent ==
    /\ NobodyYet
    /\ InitRequests
    /\ FileSessions
    /\ job = NoJob
    /\ chat_messages = Joined
    /\ chat_log = chat_messages
    /\ disk = NoEntries
    /\ metadata = NoEntries
    /\ next_folder = 1
    /\ folder_uploads = Put(NoEntries, 1, [NewFolder(<<"f">>, <<"b">>) EXCEPT
                                              !.received_files = 1, !.received_bytes = 1])
    /\ tree = Put(NoEntries, 1, Put(NoEntries, <<"x">>, <<7>>))
    /\ folder_finalize_status = NoEntries

----------------------------------------------------------------------------
(* Specifications *)

\* two clients ask to join and poll; the host answers
NextJoin ==
    \/ \E b \in Clients :
          \/ join_request_begin(b) \/ join_request(b)
          \/ join_status_begin(b) \/ join_status(b)
    \/ \E b \in Hosts :
          \/ join_respond_begin(b) \/ join_respond(b) \/ respond_unkick(b) \/ respond_history(b)

SpecJoin == Init /\ [][NextJoin]_vars

\* one client asks to join and polls; the host answers and kicks
NextGate ==
    \/ \E b \in {"c1"} :
          \/ join_request_begin(b) \/ join_request(b)
          \/ join_status_begin(b) \/ join_status(b)
    \/ \E b \in Hosts :
          \/ join_respond_begin(b) \/ join_respond(b) \/ respond_unkick(b) \/ respond_history(b)
          \/ kick_user_begin(b) \/ kick_user(b) \/ kick_presence(b) \/ kick_chat(b)

SpecGate == Init /\ [][NextGate]_vars

NextPresence ==
    \/ Tick
    \/ \E b \in Browsers :
          \/ online_users_begin(b) \/ online_users(b) \/ get_online_users(b)

SpecPresence == InitPresence /\ [][NextPresence]_vars

\* the host kicks while everybody lists the online users
NextKick ==
    \/ \E b \in Hosts :
          \/ kick_user_begin(b) \/ kick_user(b) \/ kick_presence(b) \/ kick_chat(b)
    \/ \E b \in Browsers :
          \/ online_users_begin(b) \/ online_users(b) \/ get_online_users(b)

SpecKick == InitPresence /\ [][NextKick]_vars

NextChat == \E b \in Browsers : send_message_begin(b) \/ send_message(b)

SpecChat == Init /\ [][NextChat]_vars

\* chat traffic of the host while a chat feed is open
NextFeed ==
    \/ \E b \in {"host"} :
          \/ send_message_begin(b) \/ (Len(chat_log) < MaxTalk /\ send_message(b))
          \/ get_messages_begin(b) \/ get_messages(b)
    \/ \E c \in FeedConnections : get_messages_poll(c) \/ get_messages_sleep(c)

SpecFeed == Init /\ [][NextFeed]_vars

\* the host has logged in and has sent messages until the log holds MAX_MESSAGES
InitFull ==
    /\ InitShared
    /\ NoFiles
    /\ chat_messages = [i \in 1..MAX_MESSAGES |->
                           IF i = 1 THEN JoinedChat(HostName)
                           ELSE ChatEntry(HostName, <<<<"m">>, i>>, "text")]
    /\ chat_log = chat_messages
    /\ session = [b \in Browsers |->
                     IF b = "host" THEN LoggedIn(HostName, "server") ELSE EmptySession]

\* chat traffic of the host on a full log while a chat feed is open
NextFeedFull ==
    \/ \E b \in {"host"} :
          \/ send_message_begin(b)
          \/ (Len(chat_log) < MAX_MESSAGES + MaxLate /\ send_message(b))
          \/ get_messages_begin(b) \/ get_messages(b)
    \/ \E c \in FeedConnections : get_messages_poll(c) \/ get_messages_sleep(c)

\* an open generator keeps running its loop
SpecFeedFull ==
    /\ InitFull
    /\ [][NextFeedFull]_vars
    /\ \A c \in FeedConnections : WF_vars(get_messages_poll(c) \/ get_messages_sleep(c))

\* one browser sends the chunks of one file over two connections, in any order
NextUpload ==
    \E t \in UploadThreads :
        \/ SendChunk(t)
        \/ upload_chunk_track(t)
        \/ upload_chunk_open(t)
        \/ upload_chunk_copy(t)
        \/ upload_chunk_meta(t)
        \/ upload_chunk_finish(t)
        \/ upload_chunk_fail(t)
        \/ upload_chunk_fail_chunks(t)
        \/ upload_chunk_fail_file(t)

SpecUpload == InitUpload /\ [][NextUpload]_vars

Download(t, headers) ==
    \/ \E raw \in DownloadNames : download_parallel_check(t, "c2", raw)
    \/ download_parallel_exists(t)
    \/ download_parallel_load(t)
    \/ download_parallel_save(t)
    \/ download_parallel_respond(t, headers)
    \/ download_parallel_stream(t)

\* the upload, and another browser downloading whole files meanwhile
NextFiles ==
    \/ NextUpload
    \/ \E t \in {"d1"} : Download(t, {NoRange})

SpecFiles == InitUpload /\ [][NextFiles]_vars

\* the offsets a range may name, and the headers built from them
RangePoints == {0, 1, 100, 199, MaxFileSize - 1, MaxFileSize}
RangeHeaders ==
    {RangeHeader(a, b) : a, b \in RangePoints \cup {Open}}
        \cup {NoRange, BytesEq \o <<"5">>, BytesEq \o <<"x", "-", "1">>}

\* a browser downloads ranges of a stored file
NextRange == \E t \in {"d1"} : Download(t, RangeHeaders)

SpecRange == InitRange /\ [][NextRange]_vars

\* a client asks to join and polls, the host lists and answers, time passes
NextExpiry ==
    \/ join_request_begin("c1") \/ join_request("c1")
    \/ join_status_begin("c1") \/ join_status("c1")
    \/ \E b \in Hosts :
          \/ join_pending_begin(b) \/ join_pending(b)
          \/ join_respond_begin(b) \/ join_respond(b)
          \/ respond_unkick(b) \/ respond_history(b)
    \/ Wait

SpecExpiry == Init /\ [][NextExpiry]_vars

\* sessions that are not the host's call the host-only actions
NextPermission ==
    \E b \in Clients :
        \/ join_respond_begin(b) \/ join_respond(b)
        \/ kick_user_begin(b) \/ kick_user(b)
        \/ delete_file_begin(b) \/ delete_file(b)
        \/ join_pending_begin(b) \/ join_pending(b)
        \/ get_client_history_begin(b) \/ get_client_history(b)

SpecPermission == InitPermission /\ [][NextPermission]_vars

\* chunk requests of any index and total arrive one after the other
NextUploadAny ==
    \E t \in {"u1"} :
        \/ SendAny(t)
        \/ upload_chunk_track(t)
        \/ upload_chunk_open(t)
        \/ upload_chunk_copy(t)
        \/ upload_chunk_meta(t)
        \/ upload_chunk_finish(t)
        \/ upload_chunk_fail(t)
        \/ upload_chunk_fail_chunks(t)
        \/ upload_chunk_fail_file(t)

SpecUploadAny == InitUploadAny /\ [][NextUploadAny]_vars

\* nothing is stored yet
InitEmpty ==
    /\ InitShared
    /\ FileSessions
    /\ job = NoJob
    /\ disk = NoEntries
    /\ metadata = NoEntries
    /\ chat_messages = Joined
    /\ chat_log = chat_messages

\* the first upload of the session goes through the fallback form while another
\* browser asks for the file
NextFallback ==
    \/ \E b \in {"c1"} :
          \/ \E raw \in {UploadName, <<>>} :
                /\ SystemChats = 0
                /\ upload_parallel_open(b, raw, FallbackData)
          \/ upload_parallel_write(b)
          \/ upload_parallel_metadata(b)
          \/ upload_parallel_chat(b)
    \/ \E t \in {"d1"} : Download(t, {NoRange})

SpecFallback == InitEmpty /\ [][NextFallback]_vars

\* the host and the uploading client "b" have logged in, the third browser has
\* not joined yet; "b" is about to upload a file of one chunk
InitLocks ==
    /\ InitShared
    /\ job = [filename |-> UploadName, total |-> 1, data |-> <<<<2, 3>>>>, unsent |-> {0}]
    /\ disk = NoEntries
    /\ metadata = NoEntries
    /\ chat_messages = <<JoinedChat(HostName), JoinedChat(<<"b">>)>>
    /\ chat_log = chat_messages
    /\ session = [b \in Browsers |->
                     CASE b = "host" -> LoggedIn(HostName, "server")
                       [] b = "c1" -> LoggedIn(<<"b">>, "client")
                       [] OTHER -> EmptySession]

\* the steps of an upload_chunk request that has saved its chunk
UploadSteps(t) ==
    \/ upload_chunk_track(t)
    \/ upload_chunk_open(t)
    \/ upload_chunk_copy(t)
    \/ upload_chunk_meta(t)
    \/ upload_chunk_finish(t)
    \/ upload_chunk_fail(t)
    \/ upload_chunk_fail_chunks(t)
    \/ upload_chunk_fail_file(t)

\* the steps of the join requests of a browser that has passed the hook
JoinSteps(b) ==
    \/ join_request(b) \/ join_status(b)
    \/ join_respond(b) \/ respond_unkick(b) \/ respond_history(b)

\* an upload while a client joins and the host answers
NextLocks ==
    \/ \E t \in {"u1"} : SendChunk(t) \/ UploadSteps(t)
    \/ \E b \in {"c2"} : join_request_begin(b) \/ join_status_begin(b)
    \/ \E b \in Hosts : join_respond_begin(b)
    \/ \E b \in {"c2", "host"} : JoinSteps(b)

\* every request that has been accepted keeps being scheduled
SpecLocks ==
    /\ InitLocks
    /\ [][NextLocks]_vars
    /\ WF_vars(UploadSteps("u1"))
    /\ \A b \in {"c2", "host"} : WF_vars(JoinSteps(b))

\* the upload attempt a byte belongs to: every browser marks the bytes of the
\* chunks it sends
Attempt(b) == IF b = "c1" THEN 1 ELSE 2
Mark(b, chunk_index) == <<10 * Attempt(b) + chunk_index>>

\* two clients upload a file of two chunks under the same name; either may
\* give up after any chunk
SendAttempt(t) ==
    /\ SystemChats < MaxChat
    /\ \A id \in DOMAIN active_transfers : active_transfers[id].total_bytes < MaxRequests
    /\ \E b \in {"c1", "c2"}, chunk_index \in 0..1 :
          upload_chunk_save(t, b, UploadName, chunk_index, 2, Mark(b, chunk_index))
    /\ UNCHANGED job

NextAttempts ==
    \E t \in {"u1"} :
        \/ SendAttempt(t)
        \/ upload_chunk_track(t)
        \/ upload_chunk_open(t)
        \/ upload_chunk_copy(t)
        \/ upload_chunk_meta(t)
        \/ upload_chunk_finish(t)
        \/ upload_chunk_fail(t)
        \/ upload_chunk_fail_chunks(t)
        \/ upload_chunk_fail_file(t)

SpecAttempts == InitUploadAny /\ [][NextAttempts]_vars

\* the steps of upload_folder_finalize after its first
FinalizeSteps(t) ==
    \/ upload_folder_finalize_info(t)
    \/ upload_folder_finalize_name(t)
    \/ upload_folder_finalize_mark(t)
    \/ upload_folder_finalize_status_init(t)
    \/ upload_folder_finalize_start(t)

\* what the page does with a folder: start, send the files, ask for the archive
\* once and poll
FolderPage ==
    \/ \E raw \in FolderNames : upload_folder_start("c1", raw)
    \/ \E folder_id \in 1..MaxFolders, relative_path \in RelativePaths, chunk \in FileData :
          /\ Below(folder_id, MaxTreeFiles)
          /\ upload_folder_file("c1", folder_id, relative_path, chunk)
    \/ \E folder_id \in 1..MaxFolders : upload_folder_finalize_status("c1", folder_id)

\* folder uploads, each finalized once
NextFolder ==
    \/ FolderPage
    \/ \E t \in FinalizeThreads, folder_id \in 1..MaxFolders :
          /\ ~Finalizing(folder_id)
          /\ upload_folder_finalize_check(t, "c1", folder_id)
    \/ \E t \in FinalizeThreads : FinalizeSteps(t)
    \/ \E z \in ZipThreads : create_zip_background(z)

SpecFolder == InitFolder /\ [][NextFolder]_vars

\* the page starts folder uploads and sends files, some of them again
NextFolderFiles ==
    \/ \E raw \in FolderNames : upload_folder_start("c1", raw)
    \/ \E folder_id \in 1..MaxFolders, relative_path \in RelativePaths, chunk \in FileData :
          /\ Below(folder_id, MaxTreeFiles + 1)
          /\ upload_folder_file("c1", folder_id, relative_path, chunk)

SpecFolderFiles == InitFolder /\ [][NextFolderFiles]_vars

\* one folder upload whose finalize request may be sent again, one request at
\* a time
NextFolderAgain ==
    \/ \E t \in {"f1"} : upload_folder_finalize_check(t, "c1", 1)
    \/ \E t \in {"f1"} : FinalizeSteps(t)
    \/ \E z \in ZipThreads : create_zip_background(z)
    \/ upload_folder_finalize_status("c1", 1)

SpecFolderAgain == InitFolderSent /\ [][NextFolderAgain]_vars

\* the same, while a background thread is left for the archive job; a request
\* that has been accepted runs to its end and a started thread keeps running
NextFolderLive ==
    \/ \E t \in {"f1"} :
          /\ \E z \in ZipThreads : zip[z].pc = "free"
          /\ upload_folder_finalize_check(t, "c1", 1)
    \/ \E t \in {"f1"} : FinalizeSteps(t)
    \/ \E z \in ZipThreads : create_zip_background(z)
    \/ upload_folder_finalize_status("c1", 1)

SpecFolderLive ==
    /\ InitFolderSent
    /\ [][NextFolderLive]_vars
    /\ WF_vars(FinalizeSteps("f1"))
    /\ \A z \in ZipThreads : WF_vars(create_zip_background(z))

\* two requests at a time download the stored file under its stored name, whole
\* or its first byte, or ask for a file that does not exist
NextDownloads ==
    \E t \in DownloadThreads :
        \/ \E raw \in {secure_filename(UploadName), <<"x">>} :
              download_parallel_check(t, "c2", raw)
        \/ download_parallel_exists(t)
        \/ download_parallel_load(t)
        \/ download_parallel_save(t)
        \/ download_parallel_respond(t, {NoRange, RangeHeader(0, 0)})
        \/ download_parallel_stream(t)

SpecDownloads == InitRange /\ [][NextDownloads]_vars

\* the host deletes the stored file while a client downloads it
NextDelete ==
    \/ \E b \in Hosts :
          \/ delete_file_begin(b) \/ delete_file(b) \/ delete_metadata(b) \/ delete_chat(b)
    \/ \E t \in {"d1"} : Download(t, {NoRange})

SpecDelete == InitRange /\ [][NextDelete]_vars

\* a client keeps sending chat messages while time passes and the host asks
\* who is online
NextActivity ==
    \/ Tick
    \/ \E b \in {"c1"} :
          \/ send_message_begin(b)
          \/ Len(chat_log) < MaxTalk /\ send_message(b)
    \/ \E b \in Hosts :
          \/ online_users_begin(b) \/ online_users(b) \/ get_online_users(b)

SpecActivity == InitPresence /\ [][NextActivity]_vars

----------------------------------------------------------------------------
(* Properties *)

Usernames(list) == {list[i].username : i \in 1..Len(list)}

C5_ListedIffTouchedInTime ==
    [][\A b \in Browsers :
          (req[b].pc = "get_online_users" /\ req'[b].pc = "idle") =>
             \A i \in 1..Len(connected_users) :
                LET name == connected_users[i].username
                IN  name \in Usernames(resp'.users) <=>
                       \E j \in 1..Len(connected_users) :
                          /\ connected_users[j].username = name
                          /\ now - connected_users[j].last_seen <= USER_TIMEOUT]_vars

\* a listing that holds a name whose record is exactly USER_TIMEOUT seconds old
C5_Witness ==
    /\ resp.body = "users"
    /\ \E i \in 1..Len(connected_users) :
          /\ now - connected_users[i].last_seen = USER_TIMEOUT
          /\ connected_users[i].username \in Usernames(resp.users)
          /\ \A j \in 1..Len(connected_users) :
                connected_users[j].username = connected_users[i].username => j = i

PendingOf(name) ==
    {cid \in PendingIds : pending_clients[cid].name = name
                          /\ pending_clients[cid].status = "pending"}

\* C6: at most one record per display name is in status pending, and a join
\* request for a name that has a pending record is answered with that record's
\* id and creates no record.
C6_OnePendingPerName ==
    /\ [](\A cid \in PendingIds :
             pending_clients[cid].status = "pending" =>
                PendingOf(pending_clients[cid].name) = {cid})
    /\ [][\A b \in Browsers :
             (req[b].pc = "join_request" /\ req'[b].pc = "idle" /\ resp'.status = 200) =>
                /\ resp'.client_id \in DOMAIN pending_clients'
                /\ LET name == pending_clients'[resp'.client_id].name
                   IN  PendingOf(name) # {} =>
                          /\ resp'.client_id \in PendingOf(name)
                          /\ pending_clients' = pending_clients]_vars

\* a second request was answered with the id of the first, still pending
C6_Witness ==
    /\ resp.status = 200 /\ resp.body = "success" /\ resp.to \in Clients
    /\ next_id = 2
    /\ resp.client_id = 1
    /\ pending_clients[1].status = "pending"

RespondName(b) == pending_clients[req[b].client_id].name

\* C7: a successful approve sets the status of the record with that id to
\* approved and changes no other record, and when it returns the record's
\* display name is not in the kicked set.
C7_ApproveOneRecord ==
    [][\A b \in Hosts :
          /\ (req[b].pc = "join_respond" /\ req'[b].pc = "respond_unkick") =>
                LET id == req'[b].client_id
                IN  /\ id \in PendingIds
                    /\ pending_clients' = [pending_clients EXCEPT ![id].status = "approved"]
          /\ (req[b].pc = "respond_unkick" /\ req'[b].pc = "respond_history") =>
                /\ pending_clients' = pending_clients
                /\ RespondName(b) \notin kicked_users'
          /\ (req[b].pc = "respond_history" /\ req[b].action = "approve"
              /\ req'[b].pc = "idle") =>
                /\ pending_clients' = pending_clients
                /\ resp'.status = 200
                /\ RespondName(b) \notin kicked_users']_vars

\* the host kicked b and then approved a request of b: b is no longer kicked
C7_Witness ==
    /\ resp.to \in Hosts /\ resp.status = 200 /\ resp.body = "success"
    /\ client_history # <<>>
    /\ client_history[1].action = "Accepted"
    /\ client_history[1].name = <<"b">>
    /\ chat_log[Len(chat_log)].message[1] = "was kicked by"
    /\ chat_log[Len(chat_log)].message[2] = <<"b">>
    /\ <<"b">> \notin kicked_users
    /\ \E cid \in PendingIds : pending_clients[cid].status = "pending"

\* C8: once kick_user has returned (and until the name is approved again) no
\* presence record of the kicked name exists and no listing holds the name.
C8_KickedStaysOffline ==
    \A name \in kick_returned :
       /\ name \notin Usernames(connected_users)
       /\ resp.body = "users" => name \notin Usernames(resp.users)

\* C9: for an approved request exactly one poll is answered 'approved'; it sets
\* up the session and deletes the record; every later poll of the id is
\* answered 'unknown'; no other poll changes the session.
C9_ApprovedConsumedOnce ==
    /\ [](\A cid \in 1..MaxIds :
             /\ approved_polls[cid] <= 1
             /\ approved_polls[cid] = 1 => cid \notin PendingIds)
    /\ [][\A b \in Browsers :
             (req[b].pc = "join_status" /\ req'[b].pc = "idle") =>
                LET cid == resp'.client_id
                IN  /\ cid \notin PendingIds => resp'.body = "unknown"
                    /\ cid \in PendingIds =>
                          resp'.body = pending_clients[cid].status
                    /\ resp'.body = "approved" =>
                          /\ cid \notin DOMAIN pending_clients'
                          /\ session'[b].logged_in
                          /\ session'[b].username = pending_clients[cid].name
                          /\ approved_polls'[cid] = 1
                    /\ resp'.body # "approved" => session' = session]_vars

\* a poll was answered 'approved' and a later poll of the same id 'unknown'
C9_Witness ==
    /\ resp.body = "unknown" /\ resp.status = 404
    /\ approved_polls[resp.client_id] = 1

HistoryOf(cid) == {i \in 1..Len(client_history) : client_history[i].client_id = cid}

\* C10: a record that is approved or rejected keeps its status, and at most one
\* history entry is recorded for a request.
C10_StatusIsFinal ==
    /\ [][\A cid \in PendingIds \cap DOMAIN pending_clients' :
             pending_clients[cid].status # "pending" =>
                pending_clients'[cid].status = pending_clients[cid].status]_vars
    /\ [](\A cid \in 1..MaxIds : Cardinality(HistoryOf(cid)) <= 1)

\* the name the uploaded file is stored under
StoredName == secure_filename(UploadName)

\* C1: whatever the order in which the chunks 0..N-1 of the upload arrived, the
\* file the assembly has produced is the concatenation of chunk 0, chunk 1, ...,
\* chunk N-1: when the loop has written the last chunk, when the upload answers
\* 'completed', and when all requests are over (the assembly has run by then,
\* and a file it left is that concatenation).
C1_AssembledInIndexOrder ==
    LET assembled == /\ StoredName \in DOMAIN disk
                     /\ disk[StoredName] = Concat(job.data)
    IN  /\ \A t \in UploadThreads : up[t].pc \in {"meta", "finish"} => assembled
        /\ resp.body = "completed" => assembled
        /\ (job.unsent = {} /\ \A t \in UploadThreads : up[t].pc = "idle")
              => /\ active_transfers = NoEntries
                 /\ StoredName \notin assembling_files
                 /\ StoredName \in DOMAIN disk => assembled

\* three chunks, not all alike, were assembled by the request that carried
\* chunk 0: chunk 0 arrived last
C1_Witness ==
    \E t \in UploadThreads :
        /\ up[t].pc = "finish"
        /\ up[t].index = 0
        /\ job.total = MaxChunks
        /\ job.data[1] # job.data[2]
        /\ disk[StoredName] = Concat(job.data)

\* C2: a download request made while the file it resolves to is being assembled
\* is not served the file (it is answered 425, or 404 before the file exists),
\* under whatever name it asks for the file.
C2_TooEarlyWhileAssembling ==
    \A t \in DownloadThreads :
        (down[t].pc = "done" /\ down[t].assembling) => down[t].status \in {425, 404}

\* C3: a request for the stored file of S bytes with the header bytes=a-b, where
\* an open start counts as 0 and an open end as S-1 and 0 <= a <= b < S, is
\* answered 206 with Content-Range 'bytes a-b/S', Content-Length b-a+1 and
\* exactly the bytes a..b of the file; bytes=100-199 on 1000 bytes gives 100
\* bytes and 'bytes 100-199/1000'.
C3_RangeServed ==
    \A t \in DownloadThreads : \A a, b \in RangePoints \cup {Open} :
        LET file == disk[StoredName]
            S == Len(file)
            first == IF a = Open THEN 0 ELSE a
            last == IF b = Open THEN S - 1 ELSE b
        IN  (/\ down[t].pc \in {"stream", "done"}
             /\ secure_filename(down[t].filename) = StoredName
             /\ down[t].range = RangeHeader(a, b)
             /\ first <= last /\ last < S)
            => /\ down[t].status = 206
               /\ down[t].content_range = ContentRange(first, last, S)
               /\ down[t].content_length = str(last - first + 1)
               /\ down[t].pc = "done" =>
                     /\ Len(down[t].body) = last - first + 1
                     /\ \A i \in 0..(last - first) : down[t].body[i + 1] = file[first + i + 1]
               /\ (a = 100 /\ b = 199 /\ S = 1000 /\ down[t].pc = "done") =>
                     /\ Len(down[t].body) = 100
                     /\ down[t].content_range =
                           <<"b", "y", "t", "e", "s", " ", "1", "0", "0", "-",
                             "1", "9", "9", "/", "1", "0", "0", "0">>

\* bytes=100-199 of the 1000-byte file has been served
C3_Witness ==
    \E t \in DownloadThreads :
        /\ down[t].pc = "done"
        /\ down[t].range = RangeHeader(100, 199)
        /\ down[t].status = 206
        /\ Len(down[t].body) = 100
        /\ down[t].body[1] = 101

\* the seconds a record has been waiting
Age(cid) == now - pending_clients[cid].timestamp

\* C11: a join request pending for more than 5 minutes is gone: no respond
\* approves it and no poll of its id is answered 'pending'.
C11_StaleRequestIsGone ==
    [][/\ \A b \in Hosts :
            (req[b].pc = "join_respond" /\ req'[b].pc = "respond_unkick") =>
                Age(req'[b].client_id) <= PENDING_TIMEOUT
       /\ \A b \in Clients :
            (req[b].pc = "join_status" /\ resp'.to = b /\ resp'.body = "pending") =>
                Age(resp'.client_id) <= PENDING_TIMEOUT]_vars

HostOnly == {"join_respond", "kick_user", "delete_file", "join_pending", "get_client_history"}

\* C12: a host-only action called by a session that is not the host's is over
\* in one step, answered 403 when the session is logged in (a session that is
\* not logged in is sent to the login page), and no step of such a request
\* changes the pending-client map, the kicked set, the presence registry, the
\* history, the chat log or the stored files and their sidecars.
C12_NonHostChangesNothing ==
    [][\A b \in Clients :
          /\ (req[b].pc \in HostOnly /\ req'[b] # req[b]) =>
                /\ req'[b].pc = "idle"
                /\ resp'.to = b
                /\ resp'.status = IF session[b].logged_in THEN 403 ELSE 302
          /\ req'[b] # req[b] =>
                UNCHANGED <<pending_clients, kicked_users, connected_users,
                            client_history, chat_messages, disk, metadata>>]_vars

\* the logged-in client has been refused
C12_Witness ==
    /\ resp.to = "c1"
    /\ resp.status = 403
    /\ session["c1"].logged_in /\ session["c1"].role = "client"
    /\ req["c1"].pc = "idle"

\* the chunk files of the transfer of the stored name, but for those a request
\* still on its way to the lock has just saved
LeftChunks ==
    {k \in DOMAIN temp :
        /\ k[1] = get_file_hash(StoredName)
        /\ ~\E t \in UploadThreads : up[t].pc = "track" /\ up[t].index = k[2]}

\* C13: when an upload request returns the error of a failed assembly, the final
\* file does not exist, no temp chunk of the transfer remains, the transfer
\* record is gone and the name is not in the assembling set.
C13_FailureCleansUp ==
    (resp.to \in UploadThreads /\ resp.status = 500) =>
        /\ StoredName \notin DOMAIN disk
        /\ LeftChunks = {}
        /\ get_file_hash(StoredName) \notin DOMAIN active_transfers
        /\ StoredName \notin assembling_files

\* C14: while a failed assembly is being cleaned up, the partial file it left
\* is on disk only with its name in the assembling set.
C14_PartialFileIsMarked ==
    \A t \in UploadThreads :
        (up[t].pc \in {"fail", "fail_chunks", "fail_file"} /\ up[t].filename \in DOMAIN disk)
            => up[t].filename \in assembling_files

\* the file is stored and nothing is writing it
Ready(filename) == filename \in DOMAIN disk /\ filename \notin assembling_files

\* C15: a file that is ready never goes back to assembling.
C15_ReadyNeverAssemblesAgain ==
    [][Ready(StoredName) => StoredName \notin assembling_files']_vars

Settled == {"complete", "error"}

\* C16: once the finalize status of a folder id is complete or error, it keeps
\* that value.
C16_StatusSettlesOnce ==
    [][\A folder_id \in DOMAIN folder_finalize_status :
          folder_finalize_status[folder_id].status \in Settled =>
              folder_finalize_status'[folder_id].status =
                  folder_finalize_status[folder_id].status]_vars

\* the background thread has an archive to write and has not finished
Running(z) == zip[z].pc \notin {"free", "done"}

\* C19: two archive jobs in progress never write to the same filename.
C19_DistinctArchiveNames ==
    \A y, z \in ZipThreads :
        (y # z /\ Running(y) /\ Running(z)) => zip[y].zip_filename # zip[z].zip_filename

\* the folder ids whose finalize status is the given one
FoldersIn(status) ==
    {folder_id \in DOMAIN folder_finalize_status :
        folder_finalize_status[folder_id].status = status}

\* the chat has been told of an upload of the folder with this many files
ChatTold(fileCount) ==
    \E i \in 1..Len(chat_log) :
        /\ chat_log[i].type = "system"
        /\ Len(chat_log[i].message) = 5
        /\ chat_log[i].message[1] = "uploaded folder"
        /\ chat_log[i].message[4] = fileCount

\* C17: whenever the finalize status of a folder id is complete, the archive it
\* names is in the upload folder, its sidecar is written with the folder flag
\* and the file count, its name is not in the assembling set, the temp tree is
\* deleted and the chat has the system message.
C17_CompleteIsSetLast ==
    \A folder_id \in FoldersIn("complete") :
        LET status == folder_finalize_status[folder_id]
        IN  /\ status.filename \in DOMAIN disk
            /\ status.filename \in DOMAIN metadata
            /\ metadata[status.filename].is_folder
            /\ metadata[status.filename].file_count = status.fileCount
            /\ status.filename \notin assembling_files
            /\ folder_id \notin DOMAIN tree
            /\ ChatTold(status.fileCount)

\* C18: whenever the finalize status of a folder id is error, the archive it
\* names is not in the upload folder, the temp tree is deleted, the name is
\* not in the assembling set, the status carries the error and no background
\* thread is working for the folder id.
C18_ErrorCleansUp ==
    \A folder_id \in FoldersIn("error") :
        LET status == folder_finalize_status[folder_id]
        IN  /\ status.filename \notin DOMAIN disk
            /\ folder_id \notin DOMAIN tree
            /\ status.filename \notin assembling_files
            /\ status.error # None
            /\ \A z \in ZipThreads : Running(z) => zip[z].folder_id # folder_id

\* the record is inside the timeout at the given time
Fresh(user_data, current_time) == current_time - user_data.last_seen <= USER_TIMEOUT

\* C20: the listing of get_online_users has no display name twice, and a name
\* with a host-flagged and a non-host record inside the timeout is listed
\* host-flagged, whichever record the loop visits first.
C20_OncePerNameHostWins ==
    [][\A b \in Browsers :
          (req[b].pc = "get_online_users" /\ req'[b].pc = "idle") =>
             /\ \A i, j \in 1..Len(resp'.users) :
                   resp'.users[i].username = resp'.users[j].username => i = j
             /\ \A i, j \in 1..Len(connected_users) :
                   (/\ connected_users[i].username = connected_users[j].username
                    /\ connected_users[i].is_server
                    /\ ~connected_users[j].is_server
                    /\ Fresh(connected_users[i], now)
                    /\ Fresh(connected_users[j], now)) =>
                      \E k \in 1..Len(resp'.users) :
                         /\ resp'.users[k].username = connected_users[i].username
                         /\ resp'.users[k].is_server]_vars

\* a listing made of a host record followed by a client record of the same
\* name, both inside the timeout
C20_Witness ==
    /\ resp.body = "users"
    /\ Len(resp.users) = 2
    /\ \E i, j \in 1..Len(connected_users) :
          /\ i < j
          /\ connected_users[i].username = connected_users[j].username
          /\ connected_users[i].is_server
          /\ ~connected_users[j].is_server
          /\ connected_users[j].last_seen = now

\* C21: a download request that gets past the two tests appends one record
\* with the caller's name to the end of the file's download list, and a request
\* answered 404 or 425 leaves every list as it is.
C21_DownloadIsRecorded ==
    [][\A t \in DownloadThreads :
          /\ (down[t].pc = "save" /\ down'[t].pc = "respond") =>
                LET filename == secure_filename(down[t].filename)
                IN  /\ filename \in DOMAIN metadata'
                    /\ Len(metadata'[filename].downloads) =
                           Len(metadata[filename].downloads) + 1
                    /\ SubSeq(metadata'[filename].downloads, 1,
                              Len(metadata[filename].downloads)) =
                           metadata[filename].downloads
                    /\ metadata'[filename].downloads[Len(metadata'[filename].downloads)]
                              .username = session[down[t].by].username
          /\ (down'[t].pc = "done" /\ down'[t].status \in {404, 425}
                 /\ down[t].pc # "done") => metadata' = metadata]_vars

\* Range headers that are not of the form start-end, or whose bounds are not
\* numbers
Malformed == {BytesEq \o <<"5">>, BytesEq \o <<"x", "-", "1">>}

\* C22: a download request with a malformed Range header is answered with a
\* 4xx status.
C22_MalformedRangeIsClientError ==
    \A t \in DownloadThreads :
        (down[t].pc = "done" /\ down[t].range \in Malformed) =>
            (down[t].status >= 400 /\ down[t].status <= 499)

\* C23: a name whose kick has returned and that has not been approved since is
\* in the kicked set, and a request that arrives with a session of that name
\* does not reach its handler: the session is cleared and the answer is the
\* redirect to the join page.
C23_KickedUntilApproved ==
    /\ [](kick_returned \subseteq kicked_users)
    /\ [][\A b \in Browsers :
             (req[b].pc = "idle" /\ session[b].username \in kick_returned) =>
                /\ req'[b].pc = "idle"
                /\ session'[b] \in {session[b], EmptySession}
                /\ session'[b] # session[b] =>
                      (resp'.to = b /\ resp'.status = 302 /\ resp'.body = "join_page")
                /\ resp'.to = b => session'[b] = EmptySession]_vars

\* a client that was approved and then kicked has come back and been sent to
\* the join page, its name still kicked
C23_Witness ==
    /\ resp.to = "c1"
    /\ resp.status = 302
    /\ resp.body = "join_page"
    /\ session["c1"] = EmptySession
    /\ kick_returned # {}
    /\ \E i \in 1..Len(chat_log) : chat_log[i].message[1] = "joined the session"

\* C24: when delete_file answers success, neither the file nor its metadata
\* sidecar exists.
C24_DeletedWithSidecar ==
    (resp.to \in Hosts /\ resp.status = 200 /\ resp.body = "success") =>
        /\ StoredName \notin DOMAIN disk
        /\ StoredName \notin DOMAIN metadata

\* C25: every index a transfer record has received lies in 0..total_chunks-1
\* of that record.
C25_ReceivedWithinTotal ==
    \A transfer_id \in DOMAIN active_transfers :
        active_transfers[transfer_id].received_chunks
            \subseteq 0..(active_transfers[transfer_id].total_chunks - 1)

\* C26: the request that counts a chunk starts the assembly exactly when the
\* distinct indices of the transfer record have reached the total_chunks of
\* that record.
C26_AssemblyAtRecordedTotal ==
    [][\A t \in UploadThreads :
          (up[t].pc = "track" /\ up'[t].pc # "track") =>
             LET record == active_transfers'[get_file_hash(up[t].filename)]
             IN  up'[t].pc = "open" <=>
                    Cardinality(record.received_chunks) = record.total_chunks]_vars

\* the background thread is between its start and the step that takes its
\* archive name out of assembling_files
Archiving(z) ==
    zip[z].pc \in {"count", "open", "write", "rmtree", "size", "metadata", "unmark", "fail"}

\* C27: while an archive job is writing a filename, the filename is in the
\* assembling set.
C27_MarkedWhileAssembling ==
    \A z \in ZipThreads : Archiving(z) => zip[z].zip_filename \in assembling_files

\* C28: when an authenticated request has been served, the presence registry
\* holds a record of the caller with last_seen = now.
C28_RequestTouchesPresence ==
    [][\A b \in Browsers :
          (req[b].pc = "send_message" /\ req'[b].pc = "idle" /\ resp'.status = 200) =>
             \E i \in 1..Len(connected_users') :
                /\ connected_users'[i].username = session[b].username
                /\ connected_users'[i].last_seen = now]_vars

\* the locks the steps of upload_chunk take with a with-statement while the
\* handler is inside its with transfer_lock block
upload_chunk_takes(pc) ==
    CASE pc = "finish" -> {"assembling_lock", "chat_lock"}
      [] pc = "fail" -> {"assembling_lock"}
      [] OTHER -> {}

\* the locks the steps of join_respond take while the handler is inside its
\* with pending_clients_lock block
join_respond_takes(pc) ==
    CASE pc = "respond_unkick" -> {"kicked_lock"}
      [] pc = "respond_history" -> {"history_lock"}
      [] OTHER -> {}

\* the locks an operation owns
Held(owner) == {l \in Locks : lock_owner[l] = owner}

\* C29: no request handler is about to take a shared-state lock while it owns
\* another one, so no operation holds two of the locks at the same time.
C29_OneLockAtATime ==
    /\ \A t \in UploadThreads : Held(t) = {} \/ upload_chunk_takes(up[t].pc) = {}
    /\ \A b \in Browsers : Held(b) = {} \/ join_respond_takes(req[b].pc) = {}

\* C30: a round of a chat feed pushes exactly the messages from last_count on
\* when the log is longer than last_count, the whole log when it is shorter,
\* and nothing when the lengths are equal; in the first two cases last_count
\* becomes the length of the log.
C30_FeedPushesDelta ==
    [][\A c \in FeedConnections :
          (feed[c].pc = "poll" /\ feed'[c].pc = "sleep") =>
             LET n == Len(chat_messages)
                 last == feed[c].last_count
             IN  /\ n > last =>
                       /\ feed'[c].sent = <<[i \in 1..(n - last) |-> chat_messages[last + i]]>>
                       /\ feed'[c].last_count = n
                 /\ n < last =>
                       /\ feed'[c].sent = <<chat_messages>>
                       /\ feed'[c].last_count = n
                 /\ n = last => feed'[c].sent = <<>>]_vars

\* a round has just pushed some but not all of the log
C30_Witness ==
    \E c \in FeedConnections :
       /\ feed[c].pc = "sleep"
       /\ feed[c].sent # <<>>
       /\ Len(feed[c].sent[1]) \in 1..(Len(chat_messages) - 1)
       /\ feed[c].last_count = Len(chat_messages)

\* C31: upload_folder_finalize answers when the background thread has only
\* been started, and a finalize status that is processing becomes complete or
\* error.
C31_ArchiveJobSettles ==
    /\ [][\A t \in FinalizeThreads :
             (fin[t].pc = "start" /\ fin'[t].pc = "idle") =>
                /\ resp'.status = 200
                /\ \E z \in ZipThreads :
                      /\ zip[z].pc = "free"
                      /\ zip'[z].pc = "count"
                      /\ zip'[z].folder_id = fin[t].folder_id]_vars
    /\ \A folder_id \in 1..MaxFolders :
          (folder_id \in FoldersIn("processing")) ~> (folder_id \in FoldersIn("complete") \cup FoldersIn("error"))

\* an archive job has been started by a request that answered, and has set the
\* status of its folder to complete
C31_Witness ==
    \E z \in ZipThreads :
       /\ zip[z].pc = "done"
       /\ zip[z].folder_id \in FoldersIn("complete")
       /\ \A t \in FinalizeThreads : fin[t].pc = "idle"

\* C32: an assembled file holds the chunks of one upload attempt only.
C32_OneAttemptPerFile ==
    (/\ StoredName \in DOMAIN disk
     /\ \A t \in UploadThreads : up[t].pc \in {"idle", "track", "meta", "finish"}) =>
        \A i, j \in 1..Len(disk[StoredName]) :
            disk[StoredName][i] \div 10 = disk[StoredName][j] \div 10

\* C33: the newest message of the log, whenever a chat feed is open, is
\* eventually pushed to that feed, also when the log is full.
C33_EveryMessageIsPushed ==
    \A c \in FeedConnections : \A n \in MAX_MESSAGES..(MAX_MESSAGES + MaxLate) :
        (feed[c].pc # "closed" /\ Len(chat_log) = n) ~>
            (/\ Len(chat_log) >= n
             /\ \E i \in 1..Len(feed[c].pushed) : feed[c].pushed[i] = chat_log[n])

PastRecord(t) ==
    \/ down[t].pc \in {"respond", "stream"}
    \/ down[t].pc = "done" /\ down[t].status \notin {404, 425}

\* C35: when k concurrent download requests of the stored file have written
\* their record, the file's metadata holds k records more than before (here
\* k is the number of download threads, and at least k records are there).
C35_NoRecordLost ==
    (\A t \in DownloadThreads : PastRecord(t) /\ down[t].filename = StoredName) =>
        /\ StoredName \in DOMAIN metadata
        /\ Len(metadata[StoredName].downloads) >= Cardinality(DownloadThreads)

\* C36: a download accepted while the stored file was ready and was the earlier
\* version (the only one of that size) streams the bytes of that version, whatever an upload
\* of the same name does to the file meanwhile.
C36_StreamIsTheAcceptedFile ==
    [][\A t \in DownloadThreads :
          (/\ down[t].pc = "stream"
           /\ down'[t].pc = "done"
           /\ ~down[t].assembling
           /\ down[t].file_size = Len(OldFile)) => down'[t].body = OldFile]_vars

\* C37: received_files of a folder upload session never exceeds the number of
\* distinct files the session has received.
C37_CountedOncePerFile ==
    \A folder_id \in DOMAIN folder_uploads :
        folder_uploads[folder_id].received_files <= Cardinality(Walk(folder_id))

\* C38: a browser's session becomes logged in only in a poll of join_status
\* that finds the status approved; the session then carries the name of that
\* request. A poll of a pending, rejected or unknown request grants nothing.
C38_OnlyApprovedPollLogsIn ==
    [][\A b \in Browsers :
          (~session[b].logged_in /\ session'[b].logged_in) =>
             /\ req[b].pc = "join_status"
             /\ resp'.to = b
             /\ resp'.body = "approved"
             /\ resp'.client_id \in PendingIds
             /\ pending_clients[resp'.client_id].status = "approved"
             /\ session'[b].username = pending_clients[resp'.client_id].name]_vars

\* a client has obtained a session from join_status, and a request of the same
\* behaviour was rejected
C38_Witness ==
    /\ \E b \in Clients : session[b].logged_in
    /\ \E i \in 1..Len(client_history) : client_history[i].action = "Rejected"

\* C39: a range request answered 206 on a file of S bytes declares as
\* Content-Length the number of bytes it streams, and a Content-Range whose
\* end is below S.
C39_RangeHeadersMatchBody ==
    \A t \in DownloadThreads :
        (down[t].pc = "done" /\ down[t].status = 206) =>
            /\ down[t].length >= 0
            /\ down[t].content_length = str(Len(down[t].body))
            /\ down[t].start + down[t].length - 1 < down[t].file_size

\* C40: a download of the file that upload_parallel writes is served nothing
\* but the whole file.
C40_FallbackNeverServedPartial ==
    \A t \in DownloadThreads :
        (/\ down[t].pc = "done"
         /\ down[t].status = 200
         /\ secure_filename(down[t].filename) = StoredName) => down[t].body = FallbackData

====
